---- MODULE Spec2Model ----
(***************************************************************************)
(* Feature-aggregation pipeline of 2020-winter-data-analysis.              *)
(*                                                                         *)
(*   kaggle-riiid/preprocessing/refinement.py     temporal cutoff splitter *)
(*   kaggle-riiid/preprocessing/preprocessing.py  pivots, feature assembly *)
(*   uncomfortable/preprocessing/preprocessing.py telemetry pivots         *)
(*                                                                         *)
(* A pandas table is a sequence of rows; a row is a record (or a function  *)
(* from column name to cell).  Python's module-level random generator is   *)
(* the variable rng.                                                       *)
(***************************************************************************)
EXTENDS Integers, Sequences, FiniteSets, TLC

----------------------------------------------------------------------------
(* Bounds of the model.                                                    *)

MaxRows == 3          \* rows of the input log
MaxUser == 2          \* user_id ranges over 1..MaxUser
MaxContainer == 3     \* task_container_id ranges over 1..MaxContainer
MaxSeed == 1          \* random_seed ranges over 0..MaxSeed
MaxLowerBound == 3    \* lower_bound ranges over 1..MaxLowerBound
GenWordBits == 3      \* width of one generator word (32 in CPython)
MaxHistory == 2       \* rows of the history log of the feature stages
MaxErrRows == 2       \* rows of the telemetry error log
MaxQuestionRows == 2  \* rows of the log given to derive_question_info
MaxTimeRows == 2      \* rows of a raw telemetry log
MaxStrategy == 3      \* filling strategies a caller may pass: the docstring lists 3

Users == 1 .. MaxUser
Containers == 1 .. MaxContainer
Seeds == 0 .. MaxSeed
LowerBounds == 1 .. MaxLowerBound
ContentTypes == {0, 1}     \* 0: question, 1: lecture

----------------------------------------------------------------------------
(* Generic helpers.                                                        *)

Range(s) == {s[i] : i \in DOMAIN s}

RECURSIVE Pow2(_)
Pow2(k) == IF k = 0 THEN 1 ELSE 2 * Pow2(k - 1)

\* int.bit_length()
RECURSIVE BitLength(_)
BitLength(n) == IF n = 0 THEN 0 ELSE 1 + BitLength(n \div 2)

\* The ascending enumeration of a finite set of integers.
RECURSIVE Ascending(_)
Ascending(S) ==
    IF S = {} THEN <<>>
    ELSE LET lo == CHOOSE x \in S : \A y \in S : x <= y
         IN  <<lo>> \o Ascending(S \ {lo})

----------------------------------------------------------------------------
(* Python's random module, as refinement.py uses it.  The Mersenne Twister *)
(* is replaced by a full-period linear congruential generator of           *)
(* GenWordBits bits; what is kept is what the splitter relies on: seed()   *)
(* fixes the generator state, every getrandbits() call advances it, and    *)
(* choice() draws an index by rejection sampling on the top bits of a word.*)

GenModulus == Pow2(GenWordBits)
GenStates == 0 .. (GenModulus - 1)

GenNext(st) == (5 * st + 3) % GenModulus

\* random.seed(a)
SeedState(a) == a % GenModulus

\* getrandbits(k), k <= GenWordBits: the top k bits of the next word.
GetRandBits(st, k) ==
    [bits |-> GenNext(st) \div Pow2(GenWordBits - k), st |-> GenNext(st)]

\* Random._randbelow_with_getrandbits(n)
RECURSIVE RandBelow(_, _)
RandBelow(st, n) ==
    LET g == GetRandBits(st, BitLength(n))
    IN  IF g.bits >= n THEN RandBelow(g.st, n)
        ELSE [r |-> g.bits, st |-> g.st]

\* random.choice(seq), seq not empty
Choice(seq, st) ==
    LET b == RandBelow(st, Len(seq))
    IN  [val |-> seq[b.r + 1], st |-> b.st]

----------------------------------------------------------------------------
(* The interaction log handed to refine_log_data.                          *)

\* A missing value (NaN) of a numeric column of the log.
NoValue == -1

\* One row of the log.  The prior_ columns tell of the user's previous
\* container; all rows of a container carry the same values.
LogRow(r, u, c, t) ==
    [row_id |-> r, user_id |-> u, task_container_id |-> c, content_type_id |-> t,
     prior_question_elapsed_time |-> 10 * u + c,
     prior_question_had_explanation |-> c % 2]

\* sort_values(['user_id', 'task_container_id']) key order
RowLess(a, b) ==
    \/ a.user_id < b.user_id
    \/ a.user_id = b.user_id /\ a.task_container_id < b.task_container_id

\* A raw log as it is read from file: row_id is the row's position, users are
\* contiguous and each user's containers are in chronological order.
IsRawLog(f) ==
    /\ \A i \in DOMAIN f : f[i].row_id = i
    /\ \A i \in DOMAIN f : i > 1 => ~RowLess(f[i], f[i - 1])

RawLogsOfLen(n) ==
    LET Keys == [1 .. n -> [user_id : Users, task_container_id : Containers,
                            content_type_id : ContentTypes]]
        Log(k) == [i \in 1 .. n |-> LogRow(i, k[i].user_id, k[i].task_container_id,
                                            k[i].content_type_id)]
    IN  {f \in {Log(k) : k \in Keys} : IsRawLog(f)}

RawLogs == UNION {RawLogsOfLen(n) : n \in 0 .. MaxRows}

----------------------------------------------------------------------------
(* refinement.py: derive_random_cutoff_data                                *)

\* groupby(['user_id', 'task_container_id'])['row_id'].transform('count')
QuestionCount(log_data, i) ==
    Cardinality({j \in DOMAIN log_data :
                    /\ log_data[j].user_id = log_data[i].user_id
                    /\ log_data[j].task_container_id = log_data[i].task_container_id})

\* log_data['question_count'] = ...: the frame with the new column.
WithQuestionCount(log_data) ==
    [i \in DOMAIN log_data |->
        [row_id |-> log_data[i].row_id,
         user_id |-> log_data[i].user_id,
         task_container_id |-> log_data[i].task_container_id,
         content_type_id |-> log_data[i].content_type_id,
         prior_question_elapsed_time |-> log_data[i].prior_question_elapsed_time,
         prior_question_had_explanation |-> log_data[i].prior_question_had_explanation,
         question_count |-> QuestionCount(log_data, i)]]

\* Variant: the single-question-container filter is left out.
IsEligibleAnyContainer(r) == r.content_type_id = 0

IsEligible(r) == r.question_count = 1 /\ r.content_type_id = 0

\* log_data[(question_count == 1) & (content_type_id == 0)]
EligibleRows(log_data) == SelectSeq(WithQuestionCount(log_data), IsEligible)

\* Variant: the rows are left in the order of the input table.
SortValuesSkipped(s) == s

\* sort_values(['user_id', 'task_container_id']): a stable insertion sort.
RECURSIVE SortValues(_)
SortValues(s) ==
    IF s = <<>> THEN <<>>
    ELSE LET rest == SortValues(Tail(s))
             h == Head(s)
             c == Cardinality({i \in DOMAIN rest : RowLess(rest[i], h)})
         IN  SubSeq(rest, 1, c) \o <<h>> \o SubSeq(rest, c + 1, Len(rest))

\* The groups of groupby(['user_id']): the users that own a row of the frame.
GroupKeys(rows) == {rows[i].user_id : i \in DOMAIN rows}

\* groupby(['user_id'])[['task_container_id']].aggregate(lambda x: tuple(x))
TaskTuple(rows, u) ==
    LET IsOfUser(r) == r.user_id = u
        own == SelectSeq(rows, IsOfUser)
    IN  [i \in DOMAIN own |-> own[i].task_container_id]

\* Variant: the draw is made over the whole tuple, not over its tail.
GetCutoffPositionNoSlice(task_tuple, lower_bound, st) ==
    IF lower_bound <= Len(task_tuple)
    THEN LET c == Choice(task_tuple, st)
         IN  [val |-> c.val, st |-> c.st, err |-> FALSE]
    ELSE IF task_tuple = <<>>
    THEN [val |-> 0, st |-> st, err |-> TRUE]
    ELSE [val |-> task_tuple[Len(task_tuple)], st |-> st, err |-> FALSE]

\* Variant: a short history is cut at its first position, not at its last.
GetCutoffPositionFirst(task_tuple, lower_bound, st) ==
    IF lower_bound <= Len(task_tuple)
    THEN LET c == Choice(SubSeq(task_tuple, lower_bound, Len(task_tuple)), st)
         IN  [val |-> c.val, st |-> c.st, err |-> FALSE]
    ELSE IF task_tuple = <<>>
    THEN [val |-> 0, st |-> st, err |-> TRUE]
    ELSE [val |-> task_tuple[1], st |-> st, err |-> FALSE]

\* _get_cutoff_position; err is the IndexError of task_tuple[-1] on ().
GetCutoffPosition(task_tuple, lower_bound, st) ==
    IF lower_bound <= Len(task_tuple)
    THEN LET c == Choice(SubSeq(task_tuple, lower_bound, Len(task_tuple)), st)
         IN  [val |-> c.val, st |-> c.st, err |-> FALSE]
    ELSE IF task_tuple = <<>>
    THEN [val |-> 0, st |-> st, err |-> TRUE]
    ELSE [val |-> task_tuple[Len(task_tuple)], st |-> st, err |-> FALSE]

\* task_data['task_container_id'].apply(...): one call per group, in index
\* (ascending user_id) order, each call drawing from the shared generator.
RECURSIVE ApplyCutoff(_, _, _, _, _)
ApplyCutoff(keys, rows, lower_bound, st, acc) ==
    IF keys = <<>> THEN [cutoff_position |-> acc, st |-> st, err |-> FALSE]
    ELSE LET g == GetCutoffPosition(TaskTuple(rows, Head(keys)), lower_bound, st)
         IN  IF g.err THEN [cutoff_position |-> acc, st |-> g.st, err |-> TRUE]
             ELSE ApplyCutoff(Tail(keys), rows, lower_bound, g.st,
                              acc @@ (Head(keys) :> g.val))

DeriveRandomCutoffData(log_data, lower_bound, st) ==
    LET rows == SortValues(EligibleRows(log_data))
    IN  ApplyCutoff(Ascending(GroupKeys(rows)), rows, lower_bound, st, <<>>)

----------------------------------------------------------------------------
(* refinement.py: refine_log_data                                          *)

\* pd.merge(data_frame, log_count_data, on = 'user_id'): an inner join that
\* keeps the left row order and adds the column cutoff_position.
MergeCutoff(frame, cutoff) ==
    LET HasCutoff(r) == r.user_id \in DOMAIN cutoff
        kept == SelectSeq(frame, HasCutoff)
    IN  [i \in DOMAIN kept |->
            [row_id |-> kept[i].row_id,
             user_id |-> kept[i].user_id,
             task_container_id |-> kept[i].task_container_id,
             content_type_id |-> kept[i].content_type_id,
             prior_question_elapsed_time |-> kept[i].prior_question_elapsed_time,
             prior_question_had_explanation |-> kept[i].prior_question_had_explanation,
             question_count |-> kept[i].question_count,
             cutoff_position |-> cutoff[kept[i].user_id]]]

\* Variant: the cutoff row is kept in the history as well.
IsBeforeCutoffInclusive(r) == r.task_container_id <= r.cutoff_position

\* Variant: the tail after the cutoff is kept in the held-out table.
IsAtCutoffOrAfter(r) == r.task_container_id >= r.cutoff_position

IsBeforeCutoff(r) == r.task_container_id < r.cutoff_position
IsAtCutoff(r) == r.task_container_id = r.cutoff_position

\* shift_question_info(log_data): the prior_ values of the question
\* containers, one row per (user, container) in the order of the log, each
\* with the prior_ values of the user's next row as question_elapsed_time
\* and question_had_explanation, left-merged onto the log.  Both tables
\* hold the prior_ columns, so the merge suffixes them with _x and _y.
ShiftQuestionInfo(log_data) ==
    LET IsQuestionRow(r) == r.content_type_id = 0
        question_data == SelectSeq(log_data, IsQuestionRow)
        Task(r) == [user_id |-> r.user_id, task_container_id |-> r.task_container_id,
                    prior_question_elapsed_time |-> r.prior_question_elapsed_time,
                    prior_question_had_explanation |-> r.prior_question_had_explanation]
        IsFirst(i) == \A j \in 1 .. (i - 1) : Task(question_data[j]) # Task(question_data[i])
        first == SelectSeq([i \in DOMAIN question_data |-> i], IsFirst)
        task_data == [k \in DOMAIN first |-> Task(question_data[first[k]])]
        Later(k) == {h \in DOMAIN task_data :
                        h > k /\ task_data[h].user_id = task_data[k].user_id}
        Next(k) == CHOOSE h \in Later(k) : \A g \in Later(k) : h <= g
        Shifted(k) ==
            [question_elapsed_time |->
                 IF Later(k) = {} THEN NoValue
                 ELSE task_data[Next(k)].prior_question_elapsed_time,
             question_had_explanation |->
                 IF Later(k) = {} THEN NoValue
                 ELSE task_data[Next(k)].prior_question_had_explanation]
        Match(r) == {k \in DOMAIN task_data :
                        /\ task_data[k].user_id = r.user_id
                        /\ task_data[k].task_container_id = r.task_container_id}
        Joined(r, k) ==
            [row_id |-> r.row_id, user_id |-> r.user_id,
             task_container_id |-> r.task_container_id,
             content_type_id |-> r.content_type_id,
             prior_question_elapsed_time_x |-> r.prior_question_elapsed_time,
             prior_question_had_explanation_x |-> r.prior_question_had_explanation,
             prior_question_elapsed_time_y |->
                 IF k = 0 THEN NoValue ELSE task_data[k].prior_question_elapsed_time,
             prior_question_had_explanation_y |->
                 IF k = 0 THEN NoValue ELSE task_data[k].prior_question_had_explanation,
             question_elapsed_time |->
                 IF k = 0 THEN NoValue ELSE Shifted(k).question_elapsed_time,
             question_had_explanation |->
                 IF k = 0 THEN NoValue ELSE Shifted(k).question_had_explanation]
    IN  [i \in DOMAIN log_data |->
            Joined(log_data[i],
                   IF Match(log_data[i]) = {} THEN 0 ELSE CHOOSE k \in Match(log_data[i]) : TRUE)]

\* The value of refine_log_data(data_frame, random_seed, lower_bound).
\* log_data is first the value of shift_question_info (line 19) and then
\* the merge of data_frame with the cutoff positions (line 22): the tables
\* returned are cut from the second.
RefineLogDataResult(frame, random_seed, lower_bound) ==
    LET d == DeriveRandomCutoffData(frame, lower_bound, SeedState(random_seed))
        LogData(shifted, merged) == merged
        merged == LogData(ShiftQuestionInfo(frame),
                          MergeCutoff(WithQuestionCount(frame), d.cutoff_position))
    IN  [log_count_data |-> d.cutoff_position,
         train_log_data |-> IF d.err THEN <<>> ELSE SelectSeq(merged, IsBeforeCutoff),
         test_log_data |-> IF d.err THEN <<>> ELSE SelectSeq(merged, IsAtCutoff),
         raised |-> d.err,
         st |-> d.st]

----------------------------------------------------------------------------
(* pandas tables of the feature stages.  A cell is a number (kept as a     *)
(* fraction v = <<numerator, denominator>>), a string, a list or NaN.  A   *)
(* frame has a set of column names, one integer index label per row        *)
(* (user_id, or the position for a RangeIndex) and one row of cells per    *)
(* index label.                                                            *)

Num(n) == [t |-> "num", v |-> <<n, 1>>, s |-> "", l |-> <<>>]
Str(x) == [t |-> "str", v |-> <<>>, s |-> x, l |-> <<>>]
List(l) == [t |-> "list", v |-> <<>>, s |-> "", l |-> l]     \* a list of strings
Bool(b) == [t |-> "bool", v |-> <<IF b THEN 1 ELSE 0>>, s |-> "", l |-> <<>>]
NaN == [t |-> "nan", v |-> <<>>, s |-> "", l |-> <<>>]

RECURSIVE Gcd(_, _)
Gcd(a, b) == IF b = 0 THEN a ELSE Gcd(b, a % b)

\* The number n / d, d > 0, n >= 0.
Rat(n, d) ==
    LET g == Gcd(n, d)
    IN  [t |-> "num", v |-> <<n \div g, d \div g>>, s |-> "", l |-> <<>>]

IsNa(c) == c.t = "nan"

\* Series.astype(str) of a category label: an int64 prints without a point.
AsTypeStr(c) == IF c.t = "str" THEN c.s ELSE ToString(c.v[1])

Frame(columns, index, data) == [columns |-> columns, index |-> index, data |-> data]

\* pd.DataFrame()
EmptyFrame == Frame({}, <<>>, <<>>)

\* A frame with a RangeIndex over the given rows.
RangeFrame(columns, data) == Frame(columns, [i \in DOMAIN data |-> i - 1], data)

IndexSet(f) == Range(f.index)

\* The row of frame f labelled k (index labels are unique where this is used).
RowAt(f, k) == f.data[CHOOSE i \in DOMAIN f.index : f.index[i] = k]

NaRow(columns) == [c \in columns |-> NaN]

\* DataFrame.fillna(0)
FillNa0(f) ==
    Frame(f.columns, f.index,
          [i \in DOMAIN f.data |->
              [c \in f.columns |-> IF IsNa(f.data[i][c]) THEN Num(0) ELSE f.data[i][c]]])

\* The cells of b for index label k, NaN when b has no such label.
Lookup(b, k) == IF k \in IndexSet(b) THEN RowAt(b, k) ELSE NaRow(b.columns)

\* a.join(b): a left join on the index.  err: overlapping column names.
LeftJoin(a, b) ==
    [err |-> a.columns \cap b.columns # {},
     frame |-> Frame(a.columns \cup b.columns, a.index,
                     [i \in DOMAIN a.data |-> a.data[i] @@ Lookup(b, a.index[i])])]

\* a.join(b, how = 'outer'): the sorted union of the two indexes.
OuterJoin(a, b) ==
    LET index == Ascending(IndexSet(a) \cup IndexSet(b))
    IN  [err |-> a.columns \cap b.columns # {},
         frame |-> Frame(a.columns \cup b.columns, index,
                         [i \in DOMAIN index |->
                             Lookup(a, index[i]) @@ Lookup(b, index[i])])]

\* f[mask]: the rows of f at the positions in mask.
FilterRows(f, mask) ==
    LET kept == SelectSeq([i \in DOMAIN f.data |-> i], LAMBDA i : i \in mask)
    IN  Frame(f.columns, [j \in DOMAIN kept |-> f.index[kept[j]]],
              [j \in DOMAIN kept |-> f.data[kept[j]]])

----------------------------------------------------------------------------
(* DataFrame.pivot_table and DataFrame.pivot                               *)

\* The aggregation of a non-empty list of non-null numeric cells.
SeqSum(cells) ==
    LET RECURSIVE Sum(_)
        Sum(k) == IF k = 0 THEN 0 ELSE cells[k].v[1] + Sum(k - 1)
    IN  Sum(Len(cells))

Aggregate(aggfunc, cells) ==
    LET vals == {cells[i].v[1] : i \in DOMAIN cells}
    IN  CASE aggfunc = "count" -> Num(Len(cells))
          [] aggfunc = "nunique" -> Num(Cardinality(Range(cells)))
          [] aggfunc = "max" -> Num(CHOOSE x \in vals : \A y \in vals : y <= x)
          [] aggfunc = "min" -> Num(CHOOSE x \in vals : \A y \in vals : x <= y)
          [] aggfunc = "sum" -> Num(SeqSum(cells))
          [] aggfunc = "mean" -> Rat(SeqSum(cells), Len(cells))

\* The values of column value in the rows of group (index label u, category cat).
GroupCells(f, value, index, column, u, cat) ==
    LET InGroup(r) == r[index] = Num(u) /\ r[column] = cat
        own == SelectSeq(f.data, InGroup)
    IN  [i \in DOMAIN own |-> own[i][value]]

Categories(f, column) == {f.data[i][column] : i \in DOMAIN f.data}

PivotIndex(f, index) == Ascending({f.data[i][index].v[1] : i \in DOMAIN f.data})

\* One cell of pivot_table(values, index, columns, aggfunc): the aggregate of
\* the group, NaN for a combination without rows.  (The inputs hold no null,
\* so dropna = True removes nothing.)
PivotCell(f, value, index, column, aggfunc, u, cat) ==
    LET cells == GroupCells(f, value, index, column, u, cat)
    IN  IF cells = <<>> THEN NaN ELSE Aggregate(aggfunc, cells)

\* pivot_table for one value column, the column of category cat renamed
\* name[cat].
PivotTable(f, value, index, column, aggfunc, name) ==
    LET idx == PivotIndex(f, index)
        cats == Categories(f, column)
        CatOf(n) == CHOOSE cat \in cats : name[cat] = n
        names == {name[cat] : cat \in cats}
    IN  Frame(names, idx,
              [i \in DOMAIN idx |->
                  [n \in names |->
                      PivotCell(f, value, index, column, aggfunc, idx[i], CatOf(n))]])

\* DataFrame.pivot(values, index, columns): the one value of each (index
\* label, category) pair, NaN for a pair without a row, no filling.  err: the
\* ValueError of a pair that occurs twice.
Pivot(f, value, index, column, name) ==
    LET idx == PivotIndex(f, index)
        cats == Categories(f, column)
        CatOf(n) == CHOOSE cat \in cats : name[cat] = n
        names == {name[cat] : cat \in cats}
        Cell(u, cat) == LET cells == GroupCells(f, value, index, column, u, cat)
                        IN  IF cells = <<>> THEN NaN ELSE cells[1]
    IN  [err |-> \E u \in Range(idx), cat \in cats :
                    Len(GroupCells(f, value, index, column, u, cat)) > 1,
         frame |-> Frame(names, idx,
                         [i \in DOMAIN idx |-> [n \in names |-> Cell(idx[i], CatOf(n))]])]

\* Python's "sub in s" on strings.
Contains(s, sub) ==
    \E i \in 1 .. (Len(s) - Len(sub) + 1) : SubSeq(s, i, i + Len(sub) - 1) = sub

\* s[-1]
LastChar(s) == SubSeq(s, Len(s), Len(s))

----------------------------------------------------------------------------
(* kaggle-riiid preprocessing.py: _derive_pivot_data                       *)

\* f"{col}_{aggfunc}_{column}_" + objective_data.columns.astype(str)
PivotDataName(col, aggfunc, column, cat) ==
    col \o "_" \o aggfunc \o "_" \o column \o "_" \o AsTypeStr(cat)

\* The loop of _derive_pivot_data over value_col, from total_data on.
RECURSIVE JoinPivotData(_, _, _, _, _, _)
JoinPivotData(total_data, data_frame, value_col, aggfunc, index, column) ==
    IF value_col = <<>> THEN total_data
    ELSE LET col == Head(value_col)
             name == [cat \in Categories(data_frame, column) |->
                         PivotDataName(col, aggfunc, column, cat)]
             Joined(joined) == [err |-> total_data.err \/ joined.err, frame |-> joined.frame]
         IN  JoinPivotData(
                 Joined(OuterJoin(total_data.frame,
                                  FillNa0(PivotTable(data_frame, col, index, column,
                                                     aggfunc, name)))),
                 data_frame, Tail(value_col), aggfunc, index, column)

DerivePivotData(data_frame, value_col, aggfunc, index, column) ==
    JoinPivotData([err |-> FALSE, frame |-> EmptyFrame], data_frame, value_col,
                  aggfunc, index, column)

----------------------------------------------------------------------------
(* kaggle-riiid preprocessing.py: derive_lecture_info                      *)

\* Some enumeration of a finite set (list(set(...)): the order is not used).
RECURSIVE SetToSeq(_)
SetToSeq(S) ==
    IF S = {} THEN <<>>
    ELSE LET x == CHOOSE y \in S : TRUE IN <<x>> \o SetToSeq(S \ {x})

\* pd.merge(left, right, left_on, right_on): an inner join on columns; the
\* key is unique in right and the two column sets are disjoint.  The result
\* has a fresh RangeIndex.
MergeOn(left, right, left_on, right_on) ==
    LET Match(r) == {j \in DOMAIN right.data : right.data[j][right_on] = r[left_on]}
        HasMatch(r) == Match(r) # {}
        kept == SelectSeq(left.data, HasMatch)
    IN  RangeFrame(left.columns \cup right.columns,
                   [i \in DOMAIN kept |->
                       kept[i] @@ right.data[CHOOSE j \in Match(kept[i]) : TRUE]])

\* The values of column value in the rows of user u.
UserCells(f, value, u) ==
    LET IsOfUser(r) == r["user_id"] = Num(u)
        own == SelectSeq(f.data, IsOfUser)
    IN  [i \in DOMAIN own |-> own[i][value]]

\* lecture_viewed_data.join(pd.get_dummies(type_of, prefix = 'lecture_type_of'))
TypeOfName(type_of) == "lecture_type_of_" \o type_of.s

WithTypeDummies(f) ==
    LET names == {TypeOfName(t) : t \in Categories(f, "type_of")}
    IN  Frame(f.columns \cup names, f.index,
              [i \in DOMAIN f.data |->
                  f.data[i] @@ [n \in names |->
                                   IF TypeOfName(f.data[i]["type_of"]) = n
                                   THEN Num(1) ELSE Num(0)]])

\* list(set('lecture_type_of_' + lecture_viewed_data['type_of']))
TypeOfList(f) == SetToSeq({TypeOfName(t) : t \in Categories(f, "type_of")})

\* _derive_part_data
DerivePartData(lecture_viewed_data) ==
    LET Join(tag_df, type_df, part_df, timestamp_df) ==
            LET j1 == LeftJoin(part_df.frame, type_df.frame)
                j2 == LeftJoin(j1.frame, tag_df.frame)
                j3 == LeftJoin(j2.frame, timestamp_df.frame)
            IN  [err |-> tag_df.err \/ type_df.err \/ part_df.err \/ timestamp_df.err
                            \/ j1.err \/ j2.err \/ j3.err,
                 frame |-> j3.frame]
    IN  Join(DerivePivotData(lecture_viewed_data, <<"tag">>, "nunique", "user_id", "part"),
             DerivePivotData(lecture_viewed_data, TypeOfList(lecture_viewed_data),
                             "count", "user_id", "part"),
             DerivePivotData(lecture_viewed_data, <<"content_id">>, "count",
                             "user_id", "part"),
             DerivePivotData(lecture_viewed_data, <<"timestamp">>, "max",
                             "user_id", "part"))

\* _derive_total_data
DeriveTotalData(lecture_viewed_data) ==
    LET idx == PivotIndex(lecture_viewed_data, "user_id")
        type_names == {TypeOfName(t) : t \in Categories(lecture_viewed_data, "type_of")}
        CountName(n) == n \o "_count"
        total_df ==
            Frame({"total_tag_nunique", "total_content_id_count", "total_timestamp_max"}, idx,
                  [i \in DOMAIN idx |->
                      [total_tag_nunique |->
                           Aggregate("nunique", UserCells(lecture_viewed_data, "tag", idx[i])),
                       total_content_id_count |->
                           Aggregate("count", UserCells(lecture_viewed_data, "content_id", idx[i])),
                       total_timestamp_max |->
                           Aggregate("max", UserCells(lecture_viewed_data, "timestamp", idx[i]))]])
        type_of_df ==
            Frame({CountName(n) : n \in type_names}, idx,
                  [i \in DOMAIN idx |->
                      [c \in {CountName(n) : n \in type_names} |->
                          Aggregate("sum", UserCells(lecture_viewed_data,
                                                     CHOOSE n \in type_names : CountName(n) = c,
                                                     idx[i]))]])
    IN  LeftJoin(total_df, type_of_df)

\* DataFrame.reset_index(): the index becomes the column user_id, the rows
\* are labelled 0, 1, 2, ...
ResetIndex(f) ==
    RangeFrame(f.columns \cup {"user_id"},
               [i \in DOMAIN f.data |-> f.data[i] @@ [c \in {"user_id"} |-> Num(f.index[i])]])

IsLecture(r) == r["content_type_id"] = Num(1)

\* log_data[log_data['content_type_id'] == 1]
LectureRows(log_data) ==
    FilterRows(log_data, {i \in DOMAIN log_data.data : IsLecture(log_data.data[i])})

\* derive_lecture_info(log_data, lectures_data)
DeriveLectureInfo(log_data, lectures_data) ==
    LET Join(part_data, total_data) ==
            LET joined == LeftJoin(part_data.frame, total_data.frame)
            IN  [err |-> part_data.err \/ total_data.err \/ joined.err,
                 frame |-> ResetIndex(joined.frame)]
        Derive(lecture_viewed_data) ==
            Join(DerivePartData(lecture_viewed_data), DeriveTotalData(lecture_viewed_data))
    IN  Derive(WithTypeDummies(MergeOn(LectureRows(log_data), lectures_data,
                                       "content_id", "lecture_id")))

----------------------------------------------------------------------------
(* kaggle-riiid preprocessing.py: derive_user_info                         *)

\* str.split(' ')
RECURSIVE SplitFrom(_, _, _)
SplitFrom(str, i, word) ==
    IF i > Len(str) THEN <<word>>
    ELSE IF SubSeq(str, i, i) = " " THEN <<word>> \o SplitFrom(str, i + 1, "")
    ELSE SplitFrom(str, i + 1, word \o SubSeq(str, i, i))

Split(str) == SplitFrom(str, 1, "")

\* str(x).split(' ') of a tags cell; a null cell prints as 'nan'.
TagList(c) == List(IF IsNa(c) THEN <<"nan">> ELSE Split(c.s))

\* Variant: the name carries an aggregation and the pivot dimension.
QuestionPivotNameWithAggfunc(col, cat) == col \o "_first_part_" \o AsTypeStr(cat)

\* f"{col}_" + pivot_table.columns.astype(str)
QuestionPivotName(col, cat) == col \o "_" \o AsTypeStr(cat)

\* The loop over question_pivot_value_list (lines 201-205).
RECURSIVE JoinQuestionPivot(_, _, _)
JoinQuestionPivot(question_pivot_df, answer_data, value_list) ==
    IF value_list = <<>> THEN question_pivot_df
    ELSE LET col == Head(value_list)
             name == [cat \in Categories(answer_data, "part") |->
                         QuestionPivotName(col, cat)]
             Joined(pivot_table, joined) ==
                 [err |-> question_pivot_df.err \/ pivot_table.err \/ joined.err,
                  frame |-> joined.frame]
             Join(pivot_table) ==
                 Joined(pivot_table, OuterJoin(question_pivot_df.frame, pivot_table.frame))
         IN  JoinQuestionPivot(Join(Pivot(answer_data, col, "user_id", "part", name)),
                               answer_data, Tail(value_list))

QuestionPivotValueList(answer_data) ==
    {col \in answer_data.columns :
        ~Contains(col, "total") /\ col \notin {"user_id", "part"}}

TotalValueList(answer_data) == {col \in answer_data.columns : Contains(col, "total")}

QuestionPivotDf(answer_data) ==
    JoinQuestionPivot([err |-> FALSE, frame |-> EmptyFrame], answer_data,
                      SetToSeq(QuestionPivotValueList(answer_data)))

\* answer_data[total_value_list + ['user_id']].drop_duplicates(['user_id'])
\*                                             .set_index('user_id')
TotalAnswerData(answer_data) ==
    LET IsFirst(i) == \A j \in 1 .. (i - 1) :
                          answer_data.data[j]["user_id"] # answer_data.data[i]["user_id"]
        kept == SelectSeq([i \in DOMAIN answer_data.data |-> i], IsFirst)
        cols == TotalValueList(answer_data)
    IN  Frame(cols, [j \in DOMAIN kept |-> answer_data.data[kept[j]]["user_id"].v[1]],
              [j \in DOMAIN kept |-> [c \in cols |-> answer_data.data[kept[j]][c]]])

\* DataFrame.set_index('user_id')
SetIndexUser(f) ==
    Frame(f.columns \ {"user_id"},
          [i \in DOMAIN f.data |-> f.data[i]["user_id"].v[1]],
          [i \in DOMAIN f.data |-> [c \in f.columns \ {"user_id"} |-> f.data[i][c]]])

\* answer_data.join(lecture_data) (line 211): the default, left, join.
JoinLecture(answer_data, lecture_data) == LeftJoin(answer_data, lecture_data)

\* A variant of overlap that compares with the whole history whatever the
\* scope.
OverlapTotal(row, parse) ==
    IF "total_solved_question_tag_list" \notin DOMAIN row THEN FALSE
    ELSE IF row["total_solved_question_tag_list"].t # "list" THEN FALSE
    ELSE Range(row["tag_list"].l) \cap Range(row["total_solved_question_tag_list"].l) # {}

\* overlap(row, parse) (lines 217-227): any failure gives False.
Overlap(row, parse) ==
    LET col == IF parse = "total" THEN "total_solved_question_tag_list"
               ELSE "solved_question_tag_list_" \o parse
    IN  IF col \notin DOMAIN row THEN FALSE
        ELSE IF row[col].t # "list" THEN FALSE
        ELSE Range(row["tag_list"].l) \cap Range(row[col].l) # {}

ParseOf(col) == IF Contains(col, "total") THEN "total" ELSE LastChar(col)

\* The loop over tag_list (lines 229-234).
WithSolvedTags(f) ==
    LET tag_list == {col \in f.columns : Contains(col, "list") /\ col # "tag_list"}
        SolvedName(col) == "is_solved_tag_on_" \o ParseOf(col)
        names == {SolvedName(col) : col \in tag_list}
        ParseOfName(n) == ParseOf(CHOOSE col \in tag_list : SolvedName(col) = n)
    IN  Frame(f.columns \cup names, f.index,
              [i \in DOMAIN f.data |->
                  [n \in names |-> Bool(Overlap(f.data[i], ParseOfName(n)))] @@ f.data[i]])

\* question_overall_data.set_index('content_id') with 'question_' + columns
QuestionOverall(question_overall_data) ==
    LET cols == question_overall_data.columns \ {"content_id"}
        Name(c) == "question_" \o c
        names == {Name(c) : c \in cols} \cup {"content_id"}
        Old(n) == IF n = "content_id" THEN n ELSE CHOOSE c \in cols : Name(c) = n
    IN  RangeFrame(names,
                   [i \in DOMAIN question_overall_data.data |->
                       [n \in names |-> question_overall_data.data[i][Old(n)]]])

\* The fixed list of columns dropped before the table is returned.
DropColumns ==
    {"Unnamed: 0", "row_id", "question_id", "task_container_id", "user_answer",
     "prior_question_elapsed_time", "prior_question_had_explanation",
     "question_elapsed_time", "question_had_explanation", "cutoff_position",
     "total_solved_question_tag_list",
     "solved_question_tag_list_1", "solved_question_tag_list_2",
     "solved_question_tag_list_3", "solved_question_tag_list_4",
     "solved_question_tag_list_5", "solved_question_tag_list_6",
     "solved_question_tag_list_7",
     "bundle_id", "correct_answer", "part", "tags", "tag_list", "content_id",
     "content_type_id"}

\* DataFrame.drop(columns = ...); err: the KeyError of a label not found.
Drop(f, columns) ==
    [err |-> ~(columns \subseteq f.columns),
     frame |-> Frame(f.columns \ columns, f.index,
                     [i \in DOMAIN f.data |-> [c \in f.columns \ columns |-> f.data[i][c]]])]

\* merge(... , on = 'content_id') with the re-labelled overall table: the
\* join key is one column of the result.
MergeOverall(f, overall) ==
    LET Match(r) == {j \in DOMAIN overall.data :
                        overall.data[j]["content_id"] = r["content_id"]}
        HasMatch(r) == Match(r) # {}
        kept == SelectSeq(f.data, HasMatch)
    IN  RangeFrame(f.columns \cup overall.columns,
                   [i \in DOMAIN kept |->
                       kept[i] @@ overall.data[CHOOSE j \in Match(kept[i]) : TRUE]])

\* objection_data['tag_list'] = objection_data['tags'].apply(...)
WithTagList(f) ==
    Frame(f.columns \cup {"tag_list"}, f.index,
          [i \in DOMAIN f.data |->
              [c \in {"tag_list"} |-> TagList(f.data[i]["tags"])] @@ f.data[i]])

\* Lines 207-211: the per-user totals, the question pivot and the lecture
\* features joined on the index.
TotalFeatureData(answer_data, question_pivot_df, lecture_data) ==
    LET answer == LeftJoin(TotalAnswerData(answer_data), question_pivot_df)
        joined == JoinLecture(answer.frame, lecture_data)
    IN  [err |-> answer.err \/ joined.err, frame |-> joined.frame]

\* Lines 212-257: the features joined to the events to predict, the tag
\* overlaps, the question rates, and the final drop.
UserInfoTable(objection_data, total_feature_data, question_meta_data, question_overall_data) ==
    LET joined == LeftJoin(SetIndexUser(objection_data), total_feature_data)
        dropped ==
            Drop(MergeOverall(
                     WithSolvedTags(
                         WithTagList(MergeOn(joined.frame, question_meta_data,
                                             "content_id", "question_id"))),
                     QuestionOverall(question_overall_data)),
                 DropColumns)
    IN  [err |-> joined.err \/ dropped.err, frame |-> dropped.frame]

\* derive_user_info.  An exception at any step ends the call: raised, and
\* no table returned.  (Each intermediate table is named once, as the
\* argument of the step that uses it.)
DeriveUserInfo(lecture_data, answer_data, objection_data, question_meta_data, question_overall_data) ==
    LET Return(question_pivot_df, total_feature_data, table) ==
            [question_pivot_df |-> question_pivot_df.frame,
             total_feature_data |-> total_feature_data.frame,
             raised |-> question_pivot_df.err \/ total_feature_data.err \/ table.err,
             objection_data |->
                 IF question_pivot_df.err \/ total_feature_data.err \/ table.err
                 THEN EmptyFrame ELSE table.frame]
        Assemble(question_pivot_df, total_feature_data) ==
            Return(question_pivot_df, total_feature_data,
                   UserInfoTable(objection_data, total_feature_data.frame,
                                 question_meta_data, question_overall_data))
        Join(question_pivot_df) ==
            Assemble(question_pivot_df,
                     TotalFeatureData(answer_data, question_pivot_df.frame, lecture_data))
    IN  Join(QuestionPivotDf(answer_data))

----------------------------------------------------------------------------
(* kaggle-riiid preprocessing.py: derive_question_info                     *)

\* The cells of a group that are not null, in the order of the group.
NonNull(cells) == SelectSeq(cells, LAMBDA c : ~IsNa(c))

\* GroupBy.count(), sum(), mean(), max() and last() of one column: each
\* skips the null cells; last() is the last non-null cell.
GroupCount(cells) == Num(Len(NonNull(cells)))
GroupSum(cells) == Num(SeqSum(NonNull(cells)))
GroupMean(cells) ==
    IF NonNull(cells) = <<>> THEN NaN
    ELSE Rat(SeqSum(NonNull(cells)), Len(NonNull(cells)))
GroupMax(cells) == IF NonNull(cells) = <<>> THEN NaN ELSE Aggregate("max", NonNull(cells))

\* Variant: the last cell of the group, null or not.
GroupLastAny(cells) == cells[Len(cells)]

GroupLast(cells) ==
    IF NonNull(cells) = <<>> THEN NaN ELSE NonNull(cells)[Len(NonNull(cells))]

\* GroupBy.sum() of a column of lists: the lists concatenated.
RECURSIVE GroupListSum(_)
GroupListSum(cells) ==
    IF cells = <<>> THEN <<>> ELSE Head(cells).l \o GroupListSum(Tail(cells))

\* Variant: the rows are left in the order of the log.
SortByRowIdSkipped(f) == f

\* question_log_data.sort_values(['row_id'])
SortByRowId(f) ==
    LET order == SortSeq([i \in DOMAIN f.data |-> i],
                         LAMBDA i, j : f.data[i]["row_id"].v[1] < f.data[j]["row_id"].v[1])
    IN  Frame(f.columns, [k \in DOMAIN order |-> f.index[order[k]]],
              [k \in DOMAIN order |-> f.data[order[k]]])

\* The keys of groupby(by), sorted: one tuple of integers per group.
GroupKeySeq(f, by) ==
    LET keys == {[k \in DOMAIN by |-> f.data[i][by[k]].v[1]] : i \in DOMAIN f.data}
        Less(a, b) == \E k \in DOMAIN by :
                          /\ a[k] < b[k]
                          /\ \A h \in 1 .. (k - 1) : a[h] = b[h]
    IN  SortSeq(SetToSeq(keys), Less)

\* The cells of column col in the rows of the group with the given key.
GroupColumn(f, by, key, col) ==
    LET InGroup(r) == \A k \in DOMAIN by : r[by[k]] = Num(key[k])
        own == SelectSeq(f.data, InGroup)
    IN  [i \in DOMAIN own |-> own[i][col]]

\* object / object * 100 (lines 183-184): the frame built from a list of
\* Series holds Python numbers, so a zero divisor is a ZeroDivisionError.
Rate(part, whole) == Rat(part.v[1] * 100, whole.v[1])

\* prefix + question_cross_sectional_data.columns
Prefixed(prefix, name) == IF Len(prefix) > 0 THEN prefix \o "_" \o name ELSE name

CrossSectionalColumns ==
    {"answered_count", "correct_count", "seen_explanation_count",
     "answer_elapsed_time_mean", "answer_elapsed_time_sum", "recently_solve_question",
     "recently_correct_answer", "solved_question_tag_list", "correct_rate",
     "seen_explanation_rate"}

\* The row of one group, before the prefix.
CrossSectionalRow(f, by, key) ==
    LET answered_count == GroupCount(GroupColumn(f, by, key, "answered_correctly"))
        correct_count == GroupSum(GroupColumn(f, by, key, "answered_correctly"))
        seen_explanation_count ==
            GroupSum(GroupColumn(f, by, key, "question_had_explanation"))
    IN  [answered_count |-> answered_count,
         correct_count |-> correct_count,
         seen_explanation_count |-> seen_explanation_count,
         answer_elapsed_time_mean |->
             GroupMean(GroupColumn(f, by, key, "question_elapsed_time")),
         answer_elapsed_time_sum |->
             GroupSum(GroupColumn(f, by, key, "question_elapsed_time")),
         recently_solve_question |-> GroupMax(GroupColumn(f, by, key, "timestamp")),
         recently_correct_answer |->
             GroupLast(GroupColumn(f, by, key, "answered_correctly")),
         solved_question_tag_list |->
             List(GroupListSum(GroupColumn(f, by, key, "tag_list"))),
         correct_rate |->
             IF answered_count = Num(0) THEN NaN ELSE Rate(correct_count, answered_count),
         seen_explanation_rate |->
             IF answered_count = Num(0) THEN NaN
             ELSE Rate(seen_explanation_count, answered_count)]

\* _derive_question_cross_sectional_data(user_gp, prefix): one row per group,
\* the group key as columns (reset_index).  err: the ZeroDivisionError of a
\* group without a non-null answer.
DeriveQuestionCrossSectionalData(f, by, prefix) ==
    LET keys == GroupKeySeq(f, by)
        names == {Prefixed(prefix, c) : c \in CrossSectionalColumns}
        Old(n) == CHOOSE c \in CrossSectionalColumns : Prefixed(prefix, c) = n
        KeyCells(key) == [c \in Range(by) |->
                             Num(key[CHOOSE k \in DOMAIN by : by[k] = c])]
        Row(key) == LET row == CrossSectionalRow(f, by, key)
                    IN  [n \in names |-> row[Old(n)]] @@ KeyCells(key)
    IN  [err |-> \E k \in DOMAIN keys :
                    GroupCount(GroupColumn(f, by, keys[k], "answered_correctly")) = Num(0),
         frame |-> RangeFrame(names \cup Range(by), [k \in DOMAIN keys |-> Row(keys[k])])]

\* log_data[log_data['content_type_id'] == 0]
QuestionRows(log_data) ==
    FilterRows(log_data, {i \in DOMAIN log_data.data :
                             log_data.data[i]["content_type_id"] = Num(0)})

\* pd.merge(part_answer_data, total_answer_data, on = ['user_id'])
MergeOnUser(part_answer_data, total_answer_data) ==
    RangeFrame(part_answer_data.columns \cup total_answer_data.columns,
               [i \in DOMAIN part_answer_data.data |->
                   part_answer_data.data[i] @@
                       total_answer_data.data[
                           CHOOSE j \in DOMAIN total_answer_data.data :
                               total_answer_data.data[j]["user_id"] =
                                   part_answer_data.data[i]["user_id"]]])

\* derive_question_info(log_data, question_data)
DeriveQuestionInfo(log_data, question_data) ==
    LET Merge(part_answer_data, total_answer_data) ==
            [err |-> part_answer_data.err \/ total_answer_data.err,
             frame |-> IF part_answer_data.err \/ total_answer_data.err THEN EmptyFrame
                       ELSE MergeOnUser(part_answer_data.frame, total_answer_data.frame)]
        Derive(question_log_data) ==
            Merge(DeriveQuestionCrossSectionalData(question_log_data,
                                                   <<"user_id", "part">>, ""),
                  DeriveQuestionCrossSectionalData(question_log_data,
                                                   <<"user_id">>, "total"))
    IN  Derive(SortByRowId(WithTagList(MergeOn(QuestionRows(log_data), question_data,
                                               "content_id", "question_id"))))

----------------------------------------------------------------------------
(* kaggle-riiid preprocessing.py: preprocessing                            *)

\* preprocessing(log_data, objection_data, lecture_meta_data,
\*               question_meta_data, question_overall_data).
\* Line 22 reads its arguments by name: a name is found among the names bound
\* in the call (bound: the five parameters and the targets of lines 20-21),
\* then among the names bound in the module (its imports and functions); a
\* name found in neither is a NameError.
Preprocessing(log_data, objection_data, lecture_meta_data, question_meta_data, question_overall_data) ==
    LET bound == {"log_data", "objection_data", "lecture_meta_data", "question_meta_data",
                  "question_overall_data", "lecture_data", "question_data"}
        module == {"pd", "np", "preprocessing", "derive_lecture_info", "_derive_part_data",
                   "_derive_total_data", "_derive_pivot_data", "derive_question_info",
                   "_derive_question_cross_sectional_data", "derive_user_info"}
        read == <<"derive_user_info", "lecture_data", "answer_data", "objection_data",
                  "question_meta_data", "question_overall_data">>
        unbound == {i \in DOMAIN read : read[i] \notin bound \cup module}
        Line22(lecture_data, question_data) ==
            LET Value(name) ==
                    CASE name = "lecture_data" -> lecture_data.frame
                      [] name = "question_data" -> question_data.frame
                      [] name = "objection_data" -> objection_data
                      [] name = "question_meta_data" -> question_meta_data
                      [] name = "question_overall_data" -> question_overall_data
                Result(res) ==
                    [error |-> IF res.raised THEN "derive_user_info" ELSE "",
                     objection_data |-> res.objection_data]
            IN  IF lecture_data.err THEN [error |-> "derive_lecture_info", objection_data |-> EmptyFrame]
                ELSE IF question_data.err
                THEN [error |-> "derive_question_info", objection_data |-> EmptyFrame]
                ELSE IF unbound # {}
                THEN [error |-> "name '" \o read[CHOOSE i \in unbound : \A j \in unbound : i <= j]
                                    \o "' is not defined",
                      objection_data |-> EmptyFrame]
                ELSE Result(DeriveUserInfo(Value(read[2]), Value(read[3]), Value(read[4]),
                                           Value(read[5]), Value(read[6])))
    IN  Line22(DeriveLectureInfo(log_data, lecture_meta_data),
               DeriveQuestionInfo(log_data, question_meta_data))

----------------------------------------------------------------------------
(* uncomfortable preprocessing.py: _derive_pivot_table                     *)

\* f"{method}_{value}_" + pivot_table.columns.astype(str)
PivotTableName(method, value, cat) == method \o "_" \o value \o "_" \o AsTypeStr(cat)

DerivePivotTable(data_frame, columns, index, value, method) ==
    LET name == [cat \in Categories(data_frame, columns) |->
                    PivotTableName(method, value, cat)]
    IN  FillNa0(PivotTable(data_frame, value, index, columns, method, name))

\* derive_err_related_individual_model_data: four pivots by model_nm, outer
\* joined on user_id.
DeriveErrRelatedIndividualModelData(err_data) ==
    LET model_err_count == DerivePivotTable(err_data, "model_nm", "user_id", "errtype", "count")
        model_distinct_err == DerivePivotTable(err_data, "model_nm", "user_id", "errtype", "nunique")
        model_distinct_code == DerivePivotTable(err_data, "model_nm", "user_id", "errcode", "nunique")
        model_distinct_date == DerivePivotTable(err_data, "model_nm", "user_id", "date", "nunique")
        j1 == OuterJoin(model_err_count, model_distinct_err)
        j2 == OuterJoin(j1.frame, model_distinct_code)
        j3 == OuterJoin(j2.frame, model_distinct_date)
    IN  [err |-> j1.err \/ j2.err \/ j3.err, frame |-> j3.frame]

----------------------------------------------------------------------------
(* uncomfortable preprocessing.py: the time column                         *)

\* A datetime cell.
Time(Y, m, d, H, M, S) == [t |-> "time", v |-> <<Y, m, d, H, M, S>>, s |-> "", l |-> <<>>]

\* str(x) of a time cell.  A raw value is held by its decimal text (a
\* 14-digit number is beyond the 32-bit integers of TLC); a datetime prints
\* as 'YYYY-MM-DD HH:MM:SS'; a null prints as 'nan'.
StrOf(c) ==
    LET Pad(n) == IF n < 10 THEN "0" \o ToString(n) ELSE ToString(n)
        Pad4(n) == IF n < 1000 THEN "0" \o Pad(n \div 100) \o Pad(n % 100)
                   ELSE ToString(n)
    IN  CASE c.t = "str" -> c.s
          [] c.t = "time" -> Pad4(c.v[1]) \o "-" \o Pad(c.v[2]) \o "-" \o Pad(c.v[3]) \o " "
                             \o Pad(c.v[4]) \o ":" \o Pad(c.v[5]) \o ":" \o Pad(c.v[6])
          [] c.t = "nan" -> "nan"
          [] OTHER -> ToString(c.v[1])

\* The digit a character writes; -1 for any other character.
DigitOf(ch) ==
    IF \E n \in 0 .. 9 : ToString(n) = ch THEN CHOOSE n \in 0 .. 9 : ToString(n) = ch
    ELSE -1

DaysInMonth(Y, m) ==
    CASE m \in {4, 6, 9, 11} -> 30
      [] m = 2 -> IF Y % 4 = 0 /\ (Y % 100 # 0 \/ Y % 400 = 0) THEN 29 ELSE 28
      [] OTHER -> 31

\* The directives that follow %Y in '%Y%m%d%H%M%S'.
Directives == <<"m", "d", "H", "M", "S">>

\* datetime.strptime(text, '%Y%m%d%H%M%S').  The format compiles to the
\* regular expression \d\d\d\d (1[0-2]|0[1-9]|[1-9])
\* (3[0-1]|[1-2]\d|0[1-9]|[1-9]| [1-9]) (2[0-3]|[0-1]\d|\d) ([0-5]\d|\d)
\* (6[0-1]|[0-5]\d|\d), matched from the start with backtracking: each
\* directive tries its two-digit form before its one-digit form.  What the
\* match leaves over, then the calendar, are checked afterwards.
Strptime(text) ==
    LET D(i) == IF i <= Len(text) THEN DigitOf(SubSeq(text, i, i)) ELSE -1
        Two(i) == D(i) * 10 + D(i + 1)
        Wide(k, i) ==
            /\ D(i) >= 0
            /\ D(i + 1) >= 0
            /\ CASE k = "m" -> Two(i) \in 1 .. 12
                 [] k = "d" -> Two(i) \in 1 .. 31
                 [] k = "H" -> Two(i) \in 0 .. 23
                 [] k = "M" -> Two(i) \in 0 .. 59
                 [] k = "S" -> Two(i) \in 0 .. 61
        Narrow(k, i) == D(i) >= (IF k \in {"m", "d"} THEN 1 ELSE 0)
        Spaced(k, i) == k = "d" /\ i <= Len(text) /\ SubSeq(text, i, i) = " " /\ D(i + 1) >= 1
        \* The values of directives k.. matched from position i, then the
        \* position after the match; <<>> when nothing matches.
        RECURSIVE Match(_, _)
        Match(k, i) ==
            IF k > Len(Directives) THEN <<i>>
            ELSE LET Rest(w) == IF w THEN Match(k + 1, i + 2) ELSE <<>>
                     Short(n) == IF n THEN Match(k + 1, i + 1) ELSE <<>>
                     Pick(wide, narrow, spaced) ==
                         IF wide # <<>> THEN <<Two(i)>> \o wide
                         ELSE IF narrow # <<>> THEN <<D(i)>> \o narrow
                         ELSE IF spaced # <<>> THEN <<D(i + 1)>> \o spaced
                         ELSE <<>>
                 IN  Pick(Rest(Wide(Directives[k], i)), Short(Narrow(Directives[k], i)),
                          Rest(Spaced(Directives[k], i)))
        Year == D(1) * 1000 + D(2) * 100 + D(3) * 10 + D(4)
        Result(found) ==
            IF found = <<>>
            THEN [error |-> "time data '" \o text \o "' does not match format '%Y%m%d%H%M%S'",
                  value |-> NaN]
            ELSE IF found[6] <= Len(text)
            THEN [error |-> "unconverted data remains: " \o SubSeq(text, found[6], Len(text)),
                  value |-> NaN]
            ELSE IF Year = 0
            THEN [error |-> "year 0 is out of range", value |-> NaN]
            ELSE IF found[2] > DaysInMonth(Year, found[1])
            THEN [error |-> "day is out of range for month", value |-> NaN]
            ELSE IF found[5] > 59
            THEN [error |-> "second must be in 0..59", value |-> NaN]
            ELSE [error |-> "",
                  value |-> Time(Year, found[1], found[2], found[3], found[4], found[5])]
    IN  Result(IF \A i \in 1 .. 4 : D(i) >= 0 THEN Match(1, 5) ELSE <<>>)


\* Series.apply(lambda x: datetime.strptime(str(x), '%Y%m%d%H%M%S')) on the
\* time column, assigned back to the column.  The rows are parsed in order
\* and the first one that fails raises; the assignment happens only when
\* every row has parsed.
ParseTime(f) ==
    LET Apply(parsed) ==
            LET bad == {i \in DOMAIN parsed : parsed[i].error # ""}
            IN  IF bad # {}
                THEN [error |-> parsed[CHOOSE i \in bad : \A j \in bad : i <= j].error,
                      frame |-> f]
                ELSE [error |-> "",
                      frame |-> Frame(f.columns, f.index,
                                      [i \in DOMAIN f.data |->
                                          [f.data[i] EXCEPT !["time"] = parsed[i].value]])]
    IN  Apply([i \in DOMAIN f.data |-> Strptime(StrOf(f.data[i]["time"]))])

\* error_data['date'] = error_data['time'].astype('datetime64[D]')
WithDate(f) ==
    LET Day(c) == Time(c.v[1], c.v[2], c.v[3], 0, 0, 0)
    IN  Frame(f.columns \cup {"date"}, f.index,
              [i \in DOMAIN f.data |->
                  [c \in {"date"} |-> Day(f.data[i]["time"])] @@ f.data[i]])

\* derive_err_related_data.  error_data is the caller's table: it is
\* returned as the call leaves it.  Of the three tables the call joins on
\* user_id (lines 45-50) the model keeps the pivots by model name.
DeriveErrRelatedData(error_data) ==
    LET Derive(parsed) ==
            IF parsed.error # ""
            THEN [error |-> parsed.error, error_data |-> parsed.frame, returned |-> <<>>]
            ELSE [error |-> "",
                  error_data |-> WithDate(parsed.frame),
                  returned |-> <<DeriveErrRelatedIndividualModelData(WithDate(parsed.frame)).frame>>]
    IN  Derive(ParseTime(error_data))

----------------------------------------------------------------------------
(* uncomfortable preprocessing.py: refine_quality_data                     *)

\* constant.py: the filling strategies refine_quality_data accepts.  Of the
\* three strategies of the docstring of derive_quality_related_data, the
\* function "does not support strategy 2 and 3".
SUPPORT_STRATEGY == {1}

\* constant.py: the names of the quality columns.
QUALITY_COLUMN == {"quality_0", "quality_1"}

\* A variant of the support check that lets every strategy pass.
SupportedAny(filling_strategy) == TRUE

\* filling_strategy in SUPPORT_STRATEGY (line 168)
Supported(filling_strategy) == filling_strategy \in SUPPORT_STRATEGY

\* Arithmetic of fractions.
RatAdd(a, b) == Rat(a.v[1] * b.v[2] + b.v[1] * a.v[2], a.v[2] * b.v[2])
RatMul(a, b) == Rat(a.v[1] * b.v[1], a.v[2] * b.v[2])
RatNeg(a) == [a EXCEPT !.v[1] = 0 - a.v[1]]

RECURSIVE RatSum(_)
RatSum(cells) == IF cells = <<>> THEN Num(0) ELSE RatAdd(Head(cells), RatSum(Tail(cells)))

\* GroupBy.mean(), var() (one degree of freedom less) and min() of the cells
\* of one column in one group: null cells are skipped.
QualityMean(cells) ==
    IF NonNull(cells) = <<>> THEN NaN
    ELSE RatMul(RatSum(NonNull(cells)), Rat(1, Len(NonNull(cells))))

QualityVar(cells) ==
    LET Var(xs, n) ==
            IF n < 2 THEN NaN
            ELSE RatMul(RatAdd(RatMul(Num(n), RatSum([i \in DOMAIN xs |-> RatMul(xs[i], xs[i])])),
                               RatNeg(RatMul(RatSum(xs), RatSum(xs)))),
                        Rat(1, n * (n - 1)))
    IN  Var(NonNull(cells), Len(NonNull(cells)))

QualityMin(cells) ==
    LET xs == NonNull(cells)
    IN  IF xs = <<>> THEN NaN
        ELSE xs[CHOOSE i \in DOMAIN xs :
                    \A j \in DOMAIN xs : xs[i].v[1] * xs[j].v[2] <= xs[j].v[1] * xs[i].v[2]]

\* float(x.replace(',', '')) of the text of a quality cell: an integer
\* written in decimal, with or without thousands separators and sign; 'nan'
\* for a null.
ToFloat(text) ==
    LET RECURSIVE Value(_, _)
        Value(i, acc) ==
            IF i > Len(text) THEN acc
            ELSE IF DigitOf(SubSeq(text, i, i)) >= 0
            THEN Value(i + 1, acc * 10 + DigitOf(SubSeq(text, i, i)))
            ELSE Value(i + 1, acc)
    IN  IF text = "nan" THEN NaN
        ELSE IF SubSeq(text, 1, 1) = "-" THEN Num(0 - Value(2, 0))
        ELSE Num(Value(1, 0))

\* The firmware versions of the model, in the order of their strings.
FwVersions == <<"04.22", "missing">>

\* The keys of groupby(['user_id', 'time', 'fwver']), sorted.
QualityKeys(f) ==
    LET keys == {<<f.data[i]["user_id"], f.data[i]["time"], f.data[i]["fwver"]>> :
                    i \in DOMAIN f.data}
        Rank(k) == <<k[1].v[1]>> \o k[2].v
                       \o <<CHOOSE n \in DOMAIN FwVersions : FwVersions[n] = k[3].s>>
        Less(a, b) == \E n \in 1 .. 8 :
                          /\ Rank(a)[n] < Rank(b)[n]
                          /\ \A h \in 1 .. (n - 1) : Rank(a)[h] = Rank(b)[h]
    IN  SortSeq(SetToSeq(keys), Less)

\* One table of _quality_strategy_1: the aggregate of every quality column
\* in every group, indexed by the keys of the groups.
QualityTable(f, keys, agg) ==
    LET Cells(k, c) ==
            LET own == SelectSeq(f.data, LAMBDA r : <<r["user_id"], r["time"], r["fwver"]>> = k)
            IN  [i \in DOMAIN own |-> own[i][c]]
        Replaced(cells) ==
            [i \in DOMAIN cells |-> IF cells[i] = Num(-1) THEN NaN ELSE cells[i]]
    IN  Frame(QUALITY_COLUMN, keys,
              [n \in DOMAIN keys |->
                  [c \in QUALITY_COLUMN |->
                      CASE agg = "mean" -> QualityMean(Replaced(Cells(keys[n], c)))
                        [] agg = "var" -> QualityVar(Cells(keys[n], c))
                        [] agg = "min" -> QualityMin(Cells(keys[n], c))]])

\* _quality_strategy_1: mean_quality_data (-1 is an error log, left out),
\* var_quality_data and error_occurred_data.
QualityStrategy1(quality_data) ==
    <<QualityTable(quality_data, QualityKeys(quality_data), "mean"),
      QualityTable(quality_data, QualityKeys(quality_data), "var"),
      QualityTable(quality_data, QualityKeys(quality_data), "min")>>

\* Lines 172-176: fwver.fillna('missing') and the quality columns as floats.
WithQualityTypes(f) ==
    Frame(f.columns, f.index,
          [i \in DOMAIN f.data |->
              [c \in f.columns |->
                  CASE c = "fwver" -> IF IsNa(f.data[i][c]) THEN Str("missing") ELSE f.data[i][c]
                    [] c \in QUALITY_COLUMN -> ToFloat(StrOf(f.data[i][c]))
                    [] OTHER -> f.data[i][c]]])

\* refine_quality_data.  quality_data is the caller's table: it is returned
\* as the call leaves it.  returned is <<>> when the call raises and when it
\* ends without a return statement (None).
RefineQualityData(quality_data, filling_strategy) ==
    LET Refine(parsed) ==
            IF parsed.error # ""
            THEN [error |-> parsed.error, quality_data |-> parsed.frame, returned |-> <<>>]
            ELSE [error |-> "",
                  quality_data |-> WithQualityTypes(parsed.frame),
                  returned |-> IF filling_strategy = 1
                               THEN QualityStrategy1(WithQualityTypes(parsed.frame))
                               ELSE <<>>]
    IN  IF ~Supported(filling_strategy)
        THEN [error |-> "The filling strategy " \o ToString(filling_strategy)
                            \o " does not support!",
              quality_data |-> quality_data, returned |-> <<>>]
        ELSE Refine(ParseTime(quality_data))

\* _derive_multicolumn_agg(data_frame, method = method) with the default
\* group_col, target_col and prefix: the aggregate of every quality column
\* per user, the columns renamed, and the columns whose values have variance
\* 0 over the users left out (a variance that is null is not 0).
DeriveMulticolumnAgg(data_frame, method) ==
    LET users == Ascending({data_frame.index[i][1].v[1] : i \in DOMAIN data_frame.index})
        Cells(u, c) ==
            LET own == SelectSeq([i \in DOMAIN data_frame.data |-> i],
                                 LAMBDA i : data_frame.index[i][1] = Num(u))
            IN  [i \in DOMAIN own |-> data_frame.data[own[i]][c]]
        Agg(cells) ==
            CASE method = "mean" -> QualityMean(cells)
              [] method = "sum" -> RatSum(NonNull(cells))
              [] method = "var" -> QualityVar(cells)
        Column(c) == [n \in DOMAIN users |-> Agg(Cells(users[n], c))]
        valid_column == {c \in QUALITY_COLUMN : QualityVar(Column(c)) # Num(0)}
        Name(c) == c \o "_" \o method
    IN  IF method \notin {"mean", "sum", "var"}
        THEN [error |-> "The method " \o method \o " does not support!", returned |-> <<>>]
        ELSE [error |-> "",
              returned |->
                  <<Frame({Name(c) : c \in valid_column}, users,
                          [n \in DOMAIN users |->
                              [name \in {Name(c) : c \in valid_column} |->
                                  Column(CHOOSE c \in valid_column : Name(c) = name)[n]]])>>]

----------------------------------------------------------------------------
(* uncomfortable preprocessing.py: derive_quality_related_data and         *)
(* preprocessing                                                           *)

\* derive_fw_model_matcher:
\* error_data[['model_nm', 'fwver']].drop_duplicates()
DeriveFwModelMatcher(error_data) ==
    {[model_nm |-> error_data.data[i]["model_nm"], fwver |-> error_data.data[i]["fwver"]] :
        i \in DOMAIN error_data.data}

\* Line 184: (mean_quality_data[QUALITY_COLUMN] ** 2).sum(axis = 1) ** 1/2.
\* sum skips the nulls, and ** binds tighter than /: the value is half the
\* sum of the squares.
QualityL2Norm(row) ==
    LET cols == SetToSeq(QUALITY_COLUMN)
        xs == NonNull([i \in DOMAIN cols |-> row[cols[i]]])
    IN  RatMul(RatSum([i \in DOMAIN xs |-> RatMul(xs[i], xs[i])]), Rat(1, 2))

\* Lines 203-224: user_quality_data.  Of its eleven columns the model keeps
\* product_inspect_count (the count of fwver per user) and
\* product_experience_count (the number of distinct fwver per user).
UserQualityData(mean_quality_data) ==
    LET index == mean_quality_data.index
        users == Ascending({index[i][1].v[1] : i \in DOMAIN index})
        Own(u) == {i \in DOMAIN index : index[i][1] = Num(u)}
    IN  Frame({"product_inspect_count", "product_experience_count"}, users,
              [n \in DOMAIN users |->
                  [product_inspect_count |-> Num(Cardinality(Own(users[n]))),
                   product_experience_count |->
                       Num(Cardinality({index[i][3] : i \in Own(users[n])}))]])

\* Lines 226-234: mean_quality_data merged with the matcher on fwver
\* (how = 'outer'), a null model_nm filled with 'model_missing', and the
\* count of quality_L2_norm pivoted by user and model.  A matcher row whose
\* fwver no quality row has becomes a row with a null user_id, which
\* pivot_table leaves out.
ModelQualityCountData(mean_quality_data, fw_model_matcher) ==
    LET index == mean_quality_data.index
        Filled(m) == IF IsNa(m) THEN Str("model_missing") ELSE m
        Models(fwver) ==
            LET matched == {x \in fw_model_matcher : x.fwver = fwver}
            IN  IF matched = {} THEN {NaN} ELSE {x.model_nm : x \in matched}
        rows == UNION {{[user_id |-> index[i][1], time |-> index[i][2], fwver |-> index[i][3],
                         model_nm |-> Filled(m),
                         quality_L2_norm |-> QualityL2Norm(mean_quality_data.data[i])] :
                            m \in Models(index[i][3])} :
                       i \in DOMAIN index}
    IN  DerivePivotTable(RangeFrame({"user_id", "time", "fwver", "model_nm", "quality_L2_norm"},
                                    SetToSeq(rows)),
                         "model_nm", "user_id", "quality_L2_norm", "count")

\* derive_quality_related_total_data: user_quality_data outer joined with
\* the pivots by model, of which the model keeps the first (line 234).
DeriveQualityRelatedTotalData(mean_quality_data, fw_model_matcher) ==
    OuterJoin(UserQualityData(mean_quality_data),
              ModelQualityCountData(mean_quality_data, fw_model_matcher))

\* derive_quality_related_individual_data: the aggregates of the quality
\* columns per user (lines 262-264), joined; the model leaves out the two
\* aggregates of error_occurred_data (lines 270-271).
DeriveQualityRelatedIndividualData(mean_quality_data) ==
    LET Joined(quality_mean, quality_sum, quality_var) ==
            LET j1 == LeftJoin(quality_mean, quality_sum)
                j2 == LeftJoin(j1.frame, quality_var)
            IN  [err |-> j1.err \/ j2.err, frame |-> j2.frame]
    IN  Joined(DeriveMulticolumnAgg(mean_quality_data, "mean").returned[1],
               DeriveMulticolumnAgg(mean_quality_data, "sum").returned[1],
               DeriveMulticolumnAgg(mean_quality_data, "var").returned[1])

\* derive_quality_related_data(quality_data, fw_model_matcher) with the
\* default filling_strategy.  quality_data is the caller's table: it is
\* returned as the call leaves it.
DeriveQualityRelatedData(quality_data, fw_model_matcher) ==
    LET Joined(user_quality_total_data, user_quality_individual_data) ==
            LET j == LeftJoin(user_quality_total_data.frame, user_quality_individual_data.frame)
            IN  [err |-> user_quality_total_data.err \/ user_quality_individual_data.err \/ j.err,
                 frame |-> j.frame]
        Derive(refined) ==
            IF refined.error # ""
            THEN [error |-> refined.error, quality_data |-> refined.quality_data,
                  returned |-> <<>>]
            ELSE [error |-> "",
                  quality_data |-> refined.quality_data,
                  returned |->
                      <<Joined(DeriveQualityRelatedTotalData(refined.returned[1],
                                                             fw_model_matcher),
                               DeriveQualityRelatedIndividualData(refined.returned[1])).frame>>]
    IN  Derive(RefineQualityData(quality_data, 1))

\* Every name a column of total_data can have whose cells the model leaves
\* out: the pivots by error type and the totals of derive_err_related_data
\* (lines 68-125), the other columns of user_quality_data (lines 203-224),
\* the other pivots by model (lines 235-238) and the aggregates of
\* error_occurred_data (lines 270-271).
OtherColumns(error_data, fw_model_matcher) ==
    LET errtypes == Categories(error_data, "errtype")
        models == {x.model_nm : x \in fw_model_matcher} \cup {Str("model_missing")}
    IN  {PivotTableName(pivot[1], pivot[2], cat) :
            pivot \in {<<"max", "err_count">>, <<"min", "err_count">>, <<"sum", "err_count">>,
                       <<"mean", "err_count">>, <<"nunique", "date">>,
                       <<"mean", "err_code_nunique">>, <<"nunique", "errcode">>},
            cat \in errtypes}
        \cup {"distinct_date", "distinct_err_type", "distinct_err_type_per_date",
              "distinct_err_code", "distinct_err_code_per_date", "distinct_err_model",
              "distinct_err_fever"}
        \cup {"product_quality_mean", "product_quality_decrease_count",
              "product_quality_decrease_ratio", "product_quality_lower_count",
              "product_quality_increase_mean", "product_stability_L1_mean",
              "product_stability_L2_mean", "product_stability_L2_max", "product_error_mean"}
        \cup {PivotTableName(pivot[1], pivot[2], cat) :
                 pivot \in {<<"mean", "quality_L2_norm">>, <<"mean", "stability_L2_norm">>,
                            <<"sum", "total_error">>, <<"mean", "total_error">>},
                 cat \in {m \in models : ~IsNa(m)}}
        \cup {"error_" \o c \o "_" \o m : c \in QUALITY_COLUMN, m \in {"sum", "mean"}}

\* Line 13: total_data['has_quality_data'] = ~pd.isna(total_data[key]) * 1
WithHasQualityData(total_data, key) ==
    Frame(total_data.columns \cup {"has_quality_data"}, total_data.index,
          [i \in DOMAIN total_data.data |->
              [c \in {"has_quality_data"} |->
                  Num(IF IsNa(total_data.data[i][key]) THEN 0 ELSE 1)] @@ total_data.data[i]])

\* preprocessing(error_data, quality_data).  Both arguments are the caller's
\* tables: they are returned as the call leaves them.  Reading a column that
\* total_data does not have is a KeyError.
TelemetryPreprocessing(error_data, quality_data) ==
    LET key == "count_quality_L2_norm"
        fw_model_matcher == DeriveFwModelMatcher(error_data)
        Last(err, quality, total_data) ==
            IF key \notin total_data.columns \cup OtherColumns(error_data, fw_model_matcher)
            THEN [error |-> "KeyError: '" \o key \o "'", error_data |-> err.error_data,
                  quality_data |-> quality.quality_data, returned |-> <<>>]
            ELSE [error |-> "", error_data |-> err.error_data,
                  quality_data |-> quality.quality_data,
                  returned |-> <<FillNa0(WithHasQualityData(total_data, key))>>]
        Quality(err, quality) ==
            IF quality.error # ""
            THEN [error |-> quality.error, error_data |-> err.error_data,
                  quality_data |-> quality.quality_data, returned |-> <<>>]
            ELSE Last(err, quality, OuterJoin(err.returned[1], quality.returned[1]).frame)
        Err(err) ==
            IF err.error # ""
            THEN [error |-> err.error, error_data |-> err.error_data,
                  quality_data |-> quality_data, returned |-> <<>>]
            ELSE Quality(err, DeriveQualityRelatedData(quality_data, fw_model_matcher))
    IN  Err(DeriveErrRelatedData(error_data))

----------------------------------------------------------------------------
(* Inputs of the feature stages.                                           *)

\* TOEIC parts 1..7, as the column list of derive_user_info spells them out.
NumParts == 7

\* lectures.csv: two lectures, of different part, tag and type.
LecturesData ==
    RangeFrame({"lecture_id", "tag", "part", "type_of"},
               <<[lecture_id |-> Num(1), tag |-> Num(1), part |-> Num(1),
                  type_of |-> Str("concept")],
                 [lecture_id |-> Num(2), tag |-> Num(2), part |-> Num(2),
                  type_of |-> Str("intention")]>>)

\* questions.csv: two questions; they share tag 2.
QuestionMetaData ==
    RangeFrame({"question_id", "bundle_id", "correct_answer", "part", "tags"},
               <<[question_id |-> Num(1), bundle_id |-> Num(1), correct_answer |-> Num(0),
                  part |-> Num(1), tags |-> Str("1 2")],
                 [question_id |-> Num(2), bundle_id |-> Num(2), correct_answer |-> Num(1),
                  part |-> Num(2), tags |-> Str("2")]>>)

\* The per-question correction rates.
QuestionOverallData ==
    RangeFrame({"content_id", "correct_rate"},
               <<[content_id |-> Num(1), correct_rate |-> Rat(1, 2)],
                 [content_id |-> Num(2), correct_rate |-> Rat(1, 4)]>>)

\* One event of the history log: a lecture view or an answered question.
HistoryEvents ==
    {[user_id |-> Num(u), content_id |-> Num(c), content_type_id |-> Num(t)] :
        u \in Users, c \in {1, 2}, t \in {0, 1}}

\* The history logs: timestamps grow with the position; at least one lecture
\* view.
HistoryLogs ==
    {RangeFrame({"user_id", "content_id", "content_type_id", "timestamp"},
                [i \in DOMAIN rows |-> rows[i] @@ [c \in {"timestamp"} |-> Num(i)]]) :
        rows \in {rs \in UNION {[1 .. n -> HistoryEvents] : n \in 1 .. MaxHistory} :
                      \E i \in DOMAIN rs : IsLecture(rs[i])}}

\* The part sets a user may have answered questions of.
PartSets == {{}, {1}, {1, 2}, 1 .. NumParts}

\* What derive_question_info returns for users whose answered parts are
\* parts[u]: one row per (user, part), the per-part values and the per-user
\* totals repeated on each row of the user.
AnswerData(parts) ==
    LET Row(u, p) ==
            [user_id |-> Num(u), part |-> Num(p),
             answered_count |-> Num(p),
             solved_question_tag_list |-> List(<<ToString(p)>>),
             total_answered_count |-> Num(SeqSum([i \in 1 .. Len(Ascending(parts[u])) |->
                                                     Num(Ascending(parts[u])[i])])),
             total_solved_question_tag_list |->
                 List([i \in 1 .. Len(Ascending(parts[u])) |->
                          ToString(Ascending(parts[u])[i])])]
        RECURSIVE Rows(_)
        Rows(u) == IF u > MaxUser THEN <<>>
                   ELSE [i \in 1 .. Len(Ascending(parts[u])) |->
                            Row(u, Ascending(parts[u])[i])] \o Rows(u + 1)
    IN  RangeFrame({"user_id", "part", "answered_count", "solved_question_tag_list",
                    "total_answered_count", "total_solved_question_tag_list"}, Rows(1))

AnswerTables == {AnswerData(parts) : parts \in [Users -> PartSets]}

\* The table of events to predict: at most one held-out question per user,
\* with the columns refine_log_data and the competition files give it.
ObjectionColumns ==
    {"Unnamed: 0", "row_id", "user_id", "content_id", "content_type_id",
     "task_container_id", "user_answer", "prior_question_elapsed_time",
     "prior_question_had_explanation", "question_elapsed_time",
     "question_had_explanation", "cutoff_position", "timestamp"}

ObjectionData(question) ==
    LET users == Ascending({u \in Users : question[u] # 0})
    IN  RangeFrame(ObjectionColumns,
                   [i \in DOMAIN users |->
                       [c \in ObjectionColumns |->
                           CASE c = "user_id" -> Num(users[i])
                             [] c = "content_id" -> Num(question[users[i]])
                             [] c = "row_id" -> Num(i - 1)
                             [] OTHER -> Num(0)]])

ObjectionTables == {ObjectionData(question) : question \in [Users -> 0 .. 2]}

\* One row of the log given to derive_question_info, but for its row_id: a
\* lecture view, or a question answered wrongly, correctly or not at all.
QuestionLogEvents ==
    {[user_id |-> Num(u), content_id |-> Num(c), content_type_id |-> Num(t),
      answered_correctly |-> a] :
        u \in Users, c \in {1, 2}, t \in {0, 1}, a \in {Num(0), Num(1), NaN}}

\* The logs given to derive_question_info: the rows in any order, row_id a
\* permutation of 1..n, the timestamp growing with row_id.
QuestionLogs ==
    {RangeFrame({"row_id", "user_id", "content_id", "content_type_id", "timestamp",
                 "answered_correctly", "question_had_explanation",
                 "question_elapsed_time"},
                [i \in DOMAIN rows |->
                    rows[i] @@ [row_id |-> Num(ids[i]), timestamp |-> Num(ids[i]),
                                question_had_explanation |-> Num(ids[i] % 2),
                                question_elapsed_time |-> Num(ids[i])]]) :
        <<rows, ids>> \in
            UNION {[1 .. n -> QuestionLogEvents]
                       \X {p \in [1 .. n -> 1 .. n] : Range(p) = 1 .. n} :
                   n \in 1 .. MaxQuestionRows}}

\* The logs given to preprocessing: a lecture view and an answered question,
\* every question row with an answer.
EntryLogs ==
    {l \in QuestionLogs :
        /\ \E i \in IndexSet(l) : RowAt(l, i).content_type_id = Num(1)
        /\ \E i \in IndexSet(l) : RowAt(l, i).content_type_id = Num(0)
        /\ \A i \in IndexSet(l) :
               RowAt(l, i).content_type_id = Num(0) => ~IsNa(RowAt(l, i).answered_correctly)}

\* The telemetry error log, with the date column derive_err_related_data adds.
ErrEvents ==
    {[user_id |-> Num(u), model_nm |-> Str(m), errtype |-> Num(t), errcode |-> Num(c),
      date |-> Num(d)] :
        u \in Users, m \in {"model_0", "model_1"}, t \in {1, 2}, c \in {1, 2}, d \in {1, 2}}

ErrTables ==
    {RangeFrame({"user_id", "model_nm", "errtype", "errcode", "date"}, rows) :
        rows \in UNION {[1 .. n -> ErrEvents] : n \in 1 .. MaxErrRows}}

----------------------------------------------------------------------------
(* Inputs of the telemetry normalisation.                                  *)

\* Raw time values: two timestamps of 14 digits, one of 13 digits, one with
\* month 13, a 30th of February, and one of 6 digits.
RawTimes ==
    {"20201101123456", "20201102000000", "2020111000000", "20201301000000",
     "20200230000000", "202011"}

\* The raw error logs.
RawErrTables ==
    {RangeFrame({"user_id", "model_nm", "errtype", "errcode", "time"}, rows) :
        rows \in UNION {[1 .. n ->
                            {[user_id |-> Num(u), model_nm |-> Str(m), errtype |-> Num(1),
                              errcode |-> Num(1), time |-> Str(t)] :
                                u \in Users, m \in {"model_0", "model_1"}, t \in RawTimes}] :
                        n \in 1 .. MaxTimeRows}}

\* The raw quality logs: the firmware version may be missing; a quality
\* value is a number written with or without a thousands separator, -1 (an
\* error log) or missing.
RawQualityTables ==
    {RangeFrame({"user_id", "time", "fwver"} \cup QUALITY_COLUMN, rows) :
        rows \in UNION {[1 .. n ->
                            {[user_id |-> Num(u), time |-> Str(t), fwver |-> f,
                              quality_0 |-> q, quality_1 |-> Str("3")] :
                                u \in Users, t \in {"20201101123456", "20201301000000"},
                                f \in {Str("04.22"), NaN},
                                q \in {Str("-1"), Str("1,000"), NaN}}] :
                        n \in 1 .. MaxTimeRows}}

\* The error logs and the quality logs given to preprocessing: every time
\* is a timestamp of 14 digits, and the error log names the firmware version.
EntryErrTables ==
    {RangeFrame({"user_id", "model_nm", "fwver", "errtype", "errcode", "time"}, rows) :
        rows \in UNION {[1 .. n ->
                            {[user_id |-> Num(u), model_nm |-> Str(m), fwver |-> Str(f),
                              errtype |-> Num(1), errcode |-> Num(1),
                              time |-> Str("20201102000000")] :
                                u \in Users, m \in {"model_0", "model_1"},
                                f \in {"04.22", "05.15"}}] :
                        n \in 1 .. MaxTimeRows}}

EntryQualityTables ==
    {f \in RawQualityTables : \A i \in DOMAIN f.data : Strptime(StrOf(f.data[i]["time"])).error = ""}

\* The filling strategies and the aggregation names a caller may pass.
Strategies == 1 .. MaxStrategy

Methods == {"mean", "sum", "var", "median"}

----------------------------------------------------------------------------
(* State.                                                                  *)

VARIABLES
    data_frame,      \* the caller's log table (a sequence of rows)
    frame_columns,   \* columns refine_log_data has added to the caller's table
    rng,             \* state of Python's module-level random generator
    pc,              \* "loaded", "refined" (one run done), "rerun" (two runs done)
    input_frame,     \* arguments of the latest refine_log_data call
    random_seed,
    lower_bound,
    log_count_data,  \* user_id -> cutoff_position, of the latest call
    train_log_data,  \* first value returned by the latest call
    test_log_data,   \* second value returned by the latest call
    raised,          \* the latest call ended in an exception
    first_run,       \* <<>> or <<record of the run before the latest one>>
    stage,           \* position of the feature stages
    log_data,        \* the history log given to derive_lecture_info
    answer_data,     \* the per-(user, part) question features
    objection_data,  \* the events to predict
    err_data,        \* the telemetry error log
    lecture_data,    \* value returned by derive_lecture_info
    question_pivot_df,    \* derive_user_info: the question pivot
    total_feature_data,   \* derive_user_info: question and lecture features joined
    user_info,       \* value returned by derive_user_info
    user_error_model_data,  \* value returned by derive_err_related_individual_model_data
    failed,          \* the latest feature stage ended in an exception
    quality_data,    \* the telemetry quality log
    filling_strategy,     \* argument of the latest refine_quality_data call
    method,          \* argument of the latest _derive_multicolumn_agg call
    error,           \* message of the exception the latest telemetry call raised, or ""
    returned         \* the tables the latest telemetry call returned; <<>> for none

split_vars == <<data_frame, frame_columns, rng, pc, input_frame, random_seed, lower_bound,
                log_count_data, train_log_data, test_log_data, raised, first_run>>

feature_vars == <<stage, log_data, answer_data, objection_data, err_data, lecture_data,
                  question_pivot_df, total_feature_data, user_info,
                  user_error_model_data, failed>>

telemetry_vars == <<quality_data, filling_strategy, method, error, returned>>

vars == <<split_vars, feature_vars, telemetry_vars>>

\* The telemetry normalisation before any input is given.
NoTelemetry ==
    /\ quality_data = EmptyFrame
    /\ filling_strategy = 0
    /\ method = ""
    /\ error = ""
    /\ returned = <<>>

\* The feature stages before any input is given.
NoFeatures ==
    /\ stage = "none"
    /\ log_data = EmptyFrame
    /\ answer_data = EmptyFrame
    /\ objection_data = EmptyFrame
    /\ err_data = EmptyFrame
    /\ lecture_data = EmptyFrame
    /\ question_pivot_df = EmptyFrame
    /\ total_feature_data = EmptyFrame
    /\ user_info = EmptyFrame
    /\ user_error_model_data = EmptyFrame
    /\ failed = FALSE

\* A log has been loaded and refine_log_data has not been called yet.
Loaded ==
    /\ data_frame \in RawLogs
    /\ frame_columns = {}
    /\ pc = "loaded"
    /\ input_frame = <<>>
    /\ random_seed = 0
    /\ lower_bound = 0
    /\ log_count_data = <<>>
    /\ train_log_data = <<>>
    /\ test_log_data = <<>>
    /\ raised = FALSE
    /\ first_run = <<>>
    /\ NoFeatures
    /\ NoTelemetry

\* One run: refine_log_data reseeds the generator before its first draw, so
\* the run is followed from one generator state.
InitSplit == rng = 0 /\ Loaded

\* Two runs: the generator starts in any state.
InitRerun == rng \in GenStates /\ Loaded

\* What is remembered of a finished run when the next one starts.
RunRecord ==
    [data_frame |-> input_frame, random_seed |-> random_seed,
     lower_bound |-> lower_bound, log_count_data |-> log_count_data,
     train_log_data |-> train_log_data, test_log_data |-> test_log_data,
     raised |-> raised]

\* refine_log_data(data_frame, seed, m).  random.seed(seed) restarts the
\* generator; shift_question_info's result is overwritten unused (line 22);
\* derive_random_cutoff_data adds question_count to the caller's table.
RefineLogData(seed, m) ==
    /\ pc \in {"loaded", "refined"}
    /\ LET res == RefineLogDataResult(data_frame, seed, m)
       IN  /\ rng' = res.st
           /\ log_count_data' = res.log_count_data
           /\ train_log_data' = res.train_log_data
           /\ test_log_data' = res.test_log_data
           /\ raised' = res.raised
    /\ input_frame' = data_frame
    /\ random_seed' = seed
    /\ lower_bound' = m
    /\ frame_columns' = frame_columns \cup {"question_count"}
    /\ first_run' = IF pc = "refined" THEN <<RunRecord>> ELSE first_run
    /\ pc' = IF pc = "loaded" THEN "refined" ELSE "rerun"
    /\ UNCHANGED <<data_frame, feature_vars, telemetry_vars>>

\* Some other code draws from the shared generator between the two runs.
OtherDraw ==
    /\ pc = "refined"
    /\ rng' = GenNext(rng)
    /\ UNCHANGED <<data_frame, frame_columns, pc, input_frame, random_seed, lower_bound,
                   log_count_data, train_log_data, test_log_data, raised, first_run,
                   feature_vars, telemetry_vars>>

\* The caller presents the same rows in another order: rows i and i + 1 swap.
ShuffleRows(i) ==
    /\ pc = "refined"
    /\ i \in 1 .. (Len(data_frame) - 1)
    /\ data_frame' = [data_frame EXCEPT ![i] = data_frame[i + 1],
                                        ![i + 1] = data_frame[i]]
    /\ UNCHANGED <<frame_columns, rng, pc, input_frame, random_seed, lower_bound,
                   log_count_data, train_log_data, test_log_data, raised, first_run,
                   feature_vars, telemetry_vars>>

\* The caller presents the log without the events of user u.
DropUser(u) ==
    /\ pc = "refined"
    /\ u \in GroupKeys(data_frame)
    /\ LET IsOther(r) == r.user_id # u
       IN  data_frame' = SelectSeq(data_frame, IsOther)
    /\ UNCHANGED <<frame_columns, rng, pc, input_frame, random_seed, lower_bound,
                   log_count_data, train_log_data, test_log_data, raised, first_run,
                   feature_vars, telemetry_vars>>

FirstRun == pc = "loaded" /\ \E seed \in Seeds, m \in LowerBounds : RefineLogData(seed, m)

NextSplit == FirstRun

SpecSplit == InitSplit /\ [][NextSplit]_vars

NextRerun ==
    \/ \E seed \in Seeds, m \in LowerBounds : RefineLogData(seed, m)
    \/ OtherDraw
    \/ \E i \in 1 .. MaxRows : ShuffleRows(i)
    \/ \E u \in Users : DropUser(u)

SpecRerun == InitRerun /\ [][NextRerun]_vars

----------------------------------------------------------------------------
(* The feature stages: the riiid stages on one set of tables, or the       *)
(* telemetry pivots on one error log.                                      *)

InitFeatures ==
    /\ data_frame = <<>>
    /\ frame_columns = {}
    /\ rng = 0
    /\ pc = "features"
    /\ input_frame = <<>>
    /\ random_seed = 0
    /\ lower_bound = 0
    /\ log_count_data = <<>>
    /\ train_log_data = <<>>
    /\ test_log_data = <<>>
    /\ raised = FALSE
    /\ first_run = <<>>
    /\ lecture_data = EmptyFrame
    /\ question_pivot_df = EmptyFrame
    /\ total_feature_data = EmptyFrame
    /\ user_info = EmptyFrame
    /\ user_error_model_data = EmptyFrame
    /\ failed = FALSE
    /\ NoTelemetry
    /\ \/ /\ stage = "riiid"
          /\ log_data \in HistoryLogs
          /\ answer_data \in AnswerTables
          /\ objection_data \in ObjectionTables
          /\ err_data = EmptyFrame
       \/ /\ stage = "telemetry"
          /\ log_data = EmptyFrame
          /\ answer_data = EmptyFrame
          /\ objection_data = EmptyFrame
          /\ err_data \in ErrTables

\* lecture_data = derive_lecture_info(log_data, lecture_meta_data)
CallDeriveLectureInfo ==
    /\ stage = "riiid"
    /\ LET res == DeriveLectureInfo(log_data, LecturesData)
       IN  /\ lecture_data' = res.frame
           /\ failed' = res.err
    /\ stage' = "lectured"
    /\ UNCHANGED <<split_vars, telemetry_vars, log_data, answer_data, objection_data, err_data,
                   question_pivot_df, total_feature_data, user_info,
                   user_error_model_data>>

\* derive_user_info(lecture_data, answer_data, objection_data,
\*                  question_meta_data, question_overall_data)
CallDeriveUserInfo ==
    /\ stage = "lectured"
    /\ ~failed
    /\ LET res == DeriveUserInfo(lecture_data, answer_data, objection_data,
                                 QuestionMetaData, QuestionOverallData)
       IN  /\ question_pivot_df' = res.question_pivot_df
           /\ total_feature_data' = res.total_feature_data
           /\ user_info' = res.objection_data
           /\ failed' = res.raised
    /\ stage' = "assembled"
    /\ UNCHANGED <<split_vars, telemetry_vars, log_data, answer_data, objection_data, err_data,
                   lecture_data, user_error_model_data>>

\* user_error_model_data = derive_err_related_individual_model_data(error_data)
CallDeriveErrRelatedIndividualModelData ==
    /\ stage = "telemetry"
    /\ LET res == DeriveErrRelatedIndividualModelData(err_data)
       IN  /\ user_error_model_data' = res.frame
           /\ failed' = res.err
    /\ stage' = "pivoted"
    /\ UNCHANGED <<split_vars, telemetry_vars, log_data, answer_data, objection_data, err_data,
                   lecture_data, question_pivot_df, total_feature_data, user_info>>

\* The question stage alone, on one log.
InitQuestion ==
    /\ data_frame = <<>>
    /\ frame_columns = {}
    /\ rng = 0
    /\ pc = "features"
    /\ input_frame = <<>>
    /\ random_seed = 0
    /\ lower_bound = 0
    /\ log_count_data = <<>>
    /\ train_log_data = <<>>
    /\ test_log_data = <<>>
    /\ raised = FALSE
    /\ first_run = <<>>
    /\ stage = "question"
    /\ log_data \in QuestionLogs
    /\ answer_data = EmptyFrame
    /\ objection_data = EmptyFrame
    /\ err_data = EmptyFrame
    /\ lecture_data = EmptyFrame
    /\ question_pivot_df = EmptyFrame
    /\ total_feature_data = EmptyFrame
    /\ user_info = EmptyFrame
    /\ user_error_model_data = EmptyFrame
    /\ failed = FALSE
    /\ NoTelemetry

\* answer_data = derive_question_info(log_data, question_meta_data)
CallDeriveQuestionInfo ==
    /\ stage = "question"
    /\ LET res == DeriveQuestionInfo(log_data, QuestionMetaData)
       IN  /\ answer_data' = res.frame
           /\ failed' = res.err
    /\ stage' = "answered"
    /\ UNCHANGED <<split_vars, telemetry_vars, log_data, objection_data, err_data, lecture_data,
                   question_pivot_df, total_feature_data, user_info,
                   user_error_model_data>>

NextQuestion == CallDeriveQuestionInfo

SpecQuestion == InitQuestion /\ [][NextQuestion]_vars

\* The entry point alone, on one log and one objective table.
InitPreprocessing ==
    /\ data_frame = <<>>
    /\ frame_columns = {}
    /\ rng = 0
    /\ pc = "features"
    /\ input_frame = <<>>
    /\ random_seed = 0
    /\ lower_bound = 0
    /\ log_count_data = <<>>
    /\ train_log_data = <<>>
    /\ test_log_data = <<>>
    /\ raised = FALSE
    /\ first_run = <<>>
    /\ stage = "entry"
    /\ log_data \in EntryLogs
    /\ answer_data = EmptyFrame
    /\ objection_data \in ObjectionTables
    /\ err_data = EmptyFrame
    /\ lecture_data = EmptyFrame
    /\ question_pivot_df = EmptyFrame
    /\ total_feature_data = EmptyFrame
    /\ user_info = EmptyFrame
    /\ user_error_model_data = EmptyFrame
    /\ failed = FALSE
    /\ NoTelemetry

\* user_info = preprocessing(log_data, objection_data, lecture_meta_data,
\*                           question_meta_data, question_overall_data)
CallPreprocessing ==
    /\ stage = "entry"
    /\ LET res == Preprocessing(log_data, objection_data, LecturesData, QuestionMetaData,
                                QuestionOverallData)
       IN  /\ user_info' = res.objection_data
           /\ error' = res.error
           /\ failed' = (res.error # "")
    /\ stage' = "preprocessed"
    /\ UNCHANGED <<split_vars, log_data, answer_data, objection_data, err_data, lecture_data,
                   question_pivot_df, total_feature_data, user_error_model_data,
                   quality_data, filling_strategy, method, returned>>

NextPreprocessing == CallPreprocessing

SpecPreprocessing == InitPreprocessing /\ [][NextPreprocessing]_vars

NextFeatures ==
    \/ CallDeriveLectureInfo
    \/ CallDeriveUserInfo
    \/ CallDeriveErrRelatedIndividualModelData

SpecFeatures == InitFeatures /\ [][NextFeatures]_vars

----------------------------------------------------------------------------
(* The telemetry normalisation: derive_err_related_data on one raw error   *)
(* log, run once or twice on the same table, or refine_quality_data on one *)
(* raw quality log followed by _derive_multicolumn_agg.                    *)

InitTelemetry ==
    /\ data_frame = <<>>
    /\ frame_columns = {}
    /\ rng = 0
    /\ pc = "telemetry"
    /\ input_frame = <<>>
    /\ random_seed = 0
    /\ lower_bound = 0
    /\ log_count_data = <<>>
    /\ train_log_data = <<>>
    /\ test_log_data = <<>>
    /\ raised = FALSE
    /\ first_run = <<>>
    /\ log_data = EmptyFrame
    /\ answer_data = EmptyFrame
    /\ objection_data = EmptyFrame
    /\ lecture_data = EmptyFrame
    /\ question_pivot_df = EmptyFrame
    /\ total_feature_data = EmptyFrame
    /\ user_info = EmptyFrame
    /\ user_error_model_data = EmptyFrame
    /\ failed = FALSE
    /\ filling_strategy = 0
    /\ method = ""
    /\ error = ""
    /\ returned = <<>>
    /\ \/ /\ stage = "raw_err"
          /\ err_data \in RawErrTables
          /\ quality_data = EmptyFrame
       \/ /\ stage = "raw_quality"
          /\ err_data = EmptyFrame
          /\ quality_data \in RawQualityTables

\* err_data = derive_err_related_data(error_data), the first run on a table
\* and a second run on the same table.
CallDeriveErrRelatedData ==
    /\ stage \in {"raw_err", "err_done"}
    /\ LET res == DeriveErrRelatedData(err_data)
       IN  /\ err_data' = res.error_data
           /\ error' = res.error
           /\ returned' = res.returned
    /\ stage' = IF stage = "raw_err" THEN "err_done" ELSE "err_rerun"
    /\ UNCHANGED <<split_vars, log_data, answer_data, objection_data, lecture_data,
                   question_pivot_df, total_feature_data, user_info,
                   user_error_model_data, failed, quality_data, filling_strategy, method>>

\* refine_quality_data(quality_data, strategy)
CallRefineQualityData(strategy) ==
    /\ stage = "raw_quality"
    /\ LET res == RefineQualityData(quality_data, strategy)
       IN  /\ quality_data' = res.quality_data
           /\ error' = res.error
           /\ returned' = res.returned
    /\ filling_strategy' = strategy
    /\ stage' = "refined"
    /\ UNCHANGED <<split_vars, log_data, answer_data, objection_data, lecture_data,
                   question_pivot_df, total_feature_data, user_info,
                   user_error_model_data, failed, err_data, method>>

\* _derive_multicolumn_agg(mean_quality_data, method = name) on the first
\* table refine_quality_data returned.
CallDeriveMulticolumnAgg(name) ==
    /\ stage = "refined"
    /\ Len(returned) = 3
    /\ LET res == DeriveMulticolumnAgg(returned[1], name)
       IN  /\ error' = res.error
           /\ returned' = res.returned
    /\ method' = name
    /\ stage' = "aggregated"
    /\ UNCHANGED <<split_vars, log_data, answer_data, objection_data, lecture_data,
                   question_pivot_df, total_feature_data, user_info,
                   user_error_model_data, failed, err_data, quality_data,
                   filling_strategy>>

NextTelemetry ==
    \/ CallDeriveErrRelatedData
    \/ \E strategy \in Strategies : CallRefineQualityData(strategy)
    \/ \E name \in Methods : CallDeriveMulticolumnAgg(name)

SpecTelemetry == InitTelemetry /\ [][NextTelemetry]_vars

\* The telemetry entry point alone, on one error log and one quality log.
InitTotal ==
    /\ data_frame = <<>>
    /\ frame_columns = {}
    /\ rng = 0
    /\ pc = "telemetry"
    /\ input_frame = <<>>
    /\ random_seed = 0
    /\ lower_bound = 0
    /\ log_count_data = <<>>
    /\ train_log_data = <<>>
    /\ test_log_data = <<>>
    /\ raised = FALSE
    /\ first_run = <<>>
    /\ stage = "raw_total"
    /\ log_data = EmptyFrame
    /\ answer_data = EmptyFrame
    /\ objection_data = EmptyFrame
    /\ err_data \in EntryErrTables
    /\ lecture_data = EmptyFrame
    /\ question_pivot_df = EmptyFrame
    /\ total_feature_data = EmptyFrame
    /\ user_info = EmptyFrame
    /\ user_error_model_data = EmptyFrame
    /\ failed = FALSE
    /\ quality_data \in EntryQualityTables
    /\ filling_strategy = 0
    /\ method = ""
    /\ error = ""
    /\ returned = <<>>

\* total_data = preprocessing(error_data, quality_data)
CallTelemetryPreprocessing ==
    /\ stage = "raw_total"
    /\ LET res == TelemetryPreprocessing(err_data, quality_data)
       IN  /\ err_data' = res.error_data
           /\ quality_data' = res.quality_data
           /\ error' = res.error
           /\ returned' = res.returned
    /\ stage' = "total"
    /\ UNCHANGED <<split_vars, log_data, answer_data, objection_data, lecture_data,
                   question_pivot_df, total_feature_data, user_info,
                   user_error_model_data, failed, filling_strategy, method>>

NextTotal == CallTelemetryPreprocessing

SpecTotal == InitTotal /\ [][NextTotal]_vars

----------------------------------------------------------------------------
(* Temporal cutoff splitter: what the properties speak about.              *)

\* Rows of a table that belong to user u.
RowsOfUser(frame, u) == {frame[i] : i \in {j \in DOMAIN frame : frame[j].user_id = u}}

\* Containers of user u that hold exactly one row, that row a question.
EligibleContainers(frame, u) ==
    {c \in Containers :
        /\ Cardinality({r \in RowsOfUser(frame, u) : r.task_container_id = c}) = 1
        /\ \A r \in RowsOfUser(frame, u) : r.task_container_id = c => r.content_type_id = 0}

\* The subject's ordered list of eligible positions.
EligibleList(frame, u) == Ascending(EligibleContainers(frame, u))

RowIds(table) == {table[i].row_id : i \in DOMAIN table}

Refined == pc = "refined" /\ ~raised

\* C1: with m = lower_bound >= 1, a subject with count >= m eligible
\* positions is cut at the entry at some position p, m <= p <= count, of its
\* own eligible list, and every such position is an outcome of the draw for
\* some generator state.
CutoffWithinRange ==
    Refined =>
        \A u \in Users :
            LET t == EligibleList(data_frame, u)
                tail == {t[p] : p \in lower_bound .. Len(t)}
            IN  (lower_bound >= 1 /\ Len(t) >= lower_bound) =>
                    /\ u \in DOMAIN log_count_data
                    /\ log_count_data[u] \in tail
                    /\ {GetCutoffPosition(t, lower_bound, st).val : st \in GenStates} = tail

\* A subject with more eligible positions than required is cut at its last
\* one, a position above m.
CutoffWithinRangeWitness ==
    /\ Refined
    /\ \E u \in Users :
          LET t == EligibleList(data_frame, u)
          IN  /\ Len(t) >= lower_bound + 1
              /\ log_count_data[u] = t[Len(t)]

\* C2: a subject with exactly m eligible events is cut at its m-th (last)
\* eligible position, a subject with fewer than m at its last eligible
\* position, whatever the state of the generator.
CutoffBoundary ==
    Refined =>
        \A u \in Users :
            LET t == EligibleList(data_frame, u)
            IN  (1 <= Len(t) /\ Len(t) <= lower_bound) =>
                    /\ u \in DOMAIN log_count_data
                    /\ log_count_data[u] = t[Len(t)]
                    /\ \A st \in GenStates :
                          GetCutoffPosition(t, lower_bound, st).val = t[Len(t)]

\* One subject has exactly m eligible events, m >= 2, another has m - 1.
CutoffBoundaryWitness ==
    /\ Refined
    /\ lower_bound >= 2
    /\ \E u, v \in Users :
          /\ Len(EligibleList(data_frame, u)) = lower_bound
          /\ Len(EligibleList(data_frame, v)) = lower_bound - 1

\* C3: for a subject with a cutoff, the history holds exactly its rows
\* strictly before the cutoff position, the held-out table exactly its rows
\* at the cutoff position, and its rows after the cutoff are in neither.
PartitioningRule ==
    Refined =>
        \A i \in DOMAIN data_frame :
            LET r == data_frame[i]
            IN  r.user_id \in DOMAIN log_count_data =>
                    LET cut == log_count_data[r.user_id]
                    IN  /\ r.row_id \in RowIds(train_log_data) <=> r.task_container_id < cut
                        /\ r.row_id \in RowIds(test_log_data) <=> r.task_container_id = cut

\* One subject has a row before, a row at and a row after its cutoff.
PartitioningRuleWitness ==
    /\ Refined
    /\ \E u \in DOMAIN log_count_data :
          /\ \E r \in RowsOfUser(data_frame, u) : r.task_container_id < log_count_data[u]
          /\ \E r \in RowsOfUser(data_frame, u) : r.task_container_id > log_count_data[u]
          /\ \E r \in RowsOfUser(data_frame, u) : r.row_id \in RowIds(test_log_data)

\* The eligible row of user u in container c.
EligibleRow(frame, u, c) == CHOOSE r \in RowsOfUser(frame, u) : r.task_container_id = c

NoEligibleEventExcluded ==
    pc = "refined" =>
        /\ ~raised
        /\ \A u \in Users :
              (RowsOfUser(data_frame, u) # {} /\ EligibleList(data_frame, u) = <<>>) =>
                  /\ u \notin DOMAIN log_count_data
                  /\ \A r \in RowsOfUser(data_frame, u) :
                        /\ r.row_id \notin RowIds(train_log_data)
                        /\ r.row_id \notin RowIds(test_log_data)

\* One subject has only a two-question container, another subject is split.
NoEligibleEventWitness ==
    /\ pc = "refined"
    /\ \E u, v \in Users :
          /\ Cardinality(RowsOfUser(data_frame, u)) = 2
          /\ \A r \in RowsOfUser(data_frame, u) : r.content_type_id = 0
          /\ EligibleList(data_frame, u) = <<>>
          /\ v \in DOMAIN log_count_data
          /\ test_log_data # <<>>

----------------------------------------------------------------------------
(* Two runs of refine_log_data.                                            *)

Rerun == pc = "rerun"

SameArguments ==
    /\ first_run[1].random_seed = random_seed
    /\ first_run[1].lower_bound = lower_bound

\* C5: two runs with the same random_seed and lower_bound on the same rows
\* (in whatever order the rows are presented, and whatever was drawn from
\* the generator before each run) give every subject the same cutoff and
\* return the same train and test rows.
CutoffReproducible ==
    (Rerun /\ SameArguments /\ Range(first_run[1].data_frame) = Range(data_frame)) =>
        /\ log_count_data = first_run[1].log_count_data
        /\ Range(train_log_data) = Range(first_run[1].train_log_data)
        /\ Range(test_log_data) = Range(first_run[1].test_log_data)
        /\ raised = first_run[1].raised

\* The second run saw the rows in another order and started from another
\* generator state than the first one left, and a subject's cutoff was drawn
\* among two or more positions.
CutoffReproducibleWitness ==
    /\ Rerun
    /\ SameArguments
    /\ Range(first_run[1].data_frame) = Range(data_frame)
    /\ first_run[1].data_frame # data_frame
    /\ \E u \in Users : Len(EligibleList(data_frame, u)) > lower_bound
    /\ \E u, v \in DOMAIN log_count_data : u # v

\* C6: with the same seed and m, a subject whose events are the same in the
\* two logs gets the same cutoff in both runs, whichever other subjects the
\* logs hold.
CutoffIndependentOfOthers ==
    (Rerun /\ SameArguments) =>
        \A u \in Users :
            (/\ RowsOfUser(first_run[1].data_frame, u) = RowsOfUser(data_frame, u)
             /\ u \in DOMAIN log_count_data
             /\ u \in DOMAIN first_run[1].log_count_data) =>
                log_count_data[u] = first_run[1].log_count_data[u]

----------------------------------------------------------------------------
(* Feature stages: what the properties speak about.                        *)

\* The field of the catalog row of lecture c.
LectureField(c, field) ==
    LecturesData.data[CHOOSE j \in DOMAIN LecturesData.data :
                          LecturesData.data[j]["lecture_id"] = c][field]

\* The lecture views of the history log, and those of user u.
LectureViews == {i \in DOMAIN log_data.data : log_data.data[i]["content_type_id"] = Num(1)}
LectureViewsOf(u) == {i \in LectureViews : log_data.data[i]["user_id"] = Num(u)}

ViewedParts(views) == {LectureField(log_data.data[i]["content_id"], "part").v[1] : i \in views}
ViewedTypes(views) == {LectureField(log_data.data[i]["content_id"], "type_of").s : i \in views}

\* The (value column, aggregation) pairs _derive_part_data pivots by part.
LecturePivots ==
    {<<"tag", "nunique">>, <<"content_id", "count">>, <<"timestamp", "max">>}
        \cup {<<"lecture_type_of_" \o t, "count">> : t \in ViewedTypes(LectureViews)}

\* The (value column, aggregation) pairs of derive_err_related_individual_model_data.
ErrPivots ==
    {<<"errtype", "count">>, <<"errtype", "nunique">>, <<"errcode", "nunique">>,
     <<"date", "nunique">>}

\* The question features pivoted by part.
QuestionValues == {"answered_count", "solved_question_tag_list"}

AnsweredParts(u) ==
    {answer_data.data[i]["part"].v[1] :
        i \in {j \in DOMAIN answer_data.data : answer_data.data[j]["user_id"] = Num(u)}}

AllAnsweredParts == UNION {AnsweredParts(u) : u \in Users}

ErrModelsOf(u) ==
    {err_data.data[i]["model_nm"].s :
        i \in {j \in DOMAIN err_data.data : err_data.data[j]["user_id"] = Num(u)}}

AllErrModels == UNION {ErrModelsOf(u) : u \in Users}

LectureInfoDone == (stage = "lectured" /\ ~failed) \/ stage = "assembled"

\* The row of lecture_data that carries user u in its user_id column.
LectureRowOf(u) ==
    lecture_data.data[CHOOSE i \in DOMAIN lecture_data.data :
                          lecture_data.data[i]["user_id"] = Num(u)]

\* Lecture pivot (_derive_pivot_data): a user without a view in a part seen
\* elsewhere in the log has 0 in every column of that part.
LecturePivotZeroFilled ==
    LectureInfoDone =>
        \A u \in Users :
            LectureViewsOf(u) # {} =>
                \A part \in ViewedParts(LectureViews) \ ViewedParts(LectureViewsOf(u)) :
                    \A pv \in LecturePivots :
                        LET col == pv[1] \o "_" \o pv[2] \o "_part_" \o ToString(part)
                        IN  /\ col \in lecture_data.columns
                            /\ LectureRowOf(u)[col] = Num(0)

\* Telemetry pivot (_derive_pivot_table): a user without an error on a model
\* seen elsewhere in the log has 0 in every column of that model.
ErrPivotZeroFilled ==
    stage = "pivoted" =>
        \A u \in Users :
            ErrModelsOf(u) # {} =>
                \A model \in AllErrModels \ ErrModelsOf(u) :
                    \A pv \in ErrPivots :
                        LET col == pv[2] \o "_" \o pv[1] \o "_" \o model
                        IN  /\ col \in user_error_model_data.columns
                            /\ RowAt(user_error_model_data, u)[col] = Num(0)

\* Question pivot (derive_user_info): a user without an answer in a part
\* seen elsewhere in answer_data has 0 in every column of that part.
QuestionPivotZeroFilled ==
    stage = "assembled" =>
        \A u \in Users :
            AnsweredParts(u) # {} =>
                \A part \in AllAnsweredParts \ AnsweredParts(u) :
                    \A value \in QuestionValues :
                        LET col == value \o "_" \o ToString(part)
                        IN  /\ col \in question_pivot_df.columns
                            /\ RowAt(question_pivot_df, u)[col] = Num(0)

\* C8: in every pivoted per-category feature (question features by part,
\* lecture features by part, error features by model) the columns cover the
\* categories observed anywhere in the input, and a subject with no events
\* in a category has 0, not NaN, in the columns of that category.
PivotZeroFill ==
    /\ QuestionPivotZeroFilled
    /\ LecturePivotZeroFilled
    /\ ErrPivotZeroFilled

\* The columns _derive_part_data pivots: value, aggregation, dimension, category.
LecturePivotColumns ==
    {pv[1] \o "_" \o pv[2] \o "_part_" \o ToString(part) :
        pv \in LecturePivots, part \in ViewedParts(LectureViews)}

\* The columns of _derive_total_data and of reset_index.
LectureTotalColumns ==
    {"user_id", "total_tag_nunique", "total_content_id_count", "total_timestamp_max"}
        \cup {"lecture_type_of_" \o t \o "_count" : t \in ViewedTypes(LectureViews)}

LecturePivotNamed ==
    LectureInfoDone => lecture_data.columns = LecturePivotColumns \cup LectureTotalColumns

\* The aggregation names a column name could carry.
AggFuncs == {"count", "nunique", "max", "min", "sum", "mean", "first", "last"}

QuestionUsers == {u \in Users : AnsweredParts(u) # {}}
LectureUsers == {u \in Users : \E i \in DOMAIN lecture_data.data :
                                   lecture_data.data[i]["user_id"] = Num(u)}

\* C10: question and lecture features are combined by an outer join on the
\* user: a user with lecture data appears in the combined table with its
\* lecture values, and a user with question data appears with its question
\* values, whether or not it has data of the other kind.
FeaturesOuterJoined ==
    stage = "assembled" =>
        /\ \A u \in LectureUsers :
               /\ u \in IndexSet(total_feature_data)
               /\ \A col \in lecture_data.columns \ {"user_id"} :
                      RowAt(total_feature_data, u)[col] = LectureRowOf(u)[col]
        /\ \A u \in QuestionUsers :
               /\ u \in IndexSet(total_feature_data)
               /\ \A col \in question_pivot_df.columns :
                      RowAt(total_feature_data, u)[col] = RowAt(question_pivot_df, u)[col]

\* The half of C10 about users with question data only.
QuestionUsersKept ==
    stage = "assembled" =>
        \A u \in QuestionUsers :
            /\ u \in IndexSet(total_feature_data)
            /\ \A col \in question_pivot_df.columns :
                   RowAt(total_feature_data, u)[col] = RowAt(question_pivot_df, u)[col]

\* The user of row i of the returned table: the merges of derive_user_info
\* keep the events to predict in their order when none is dropped.
EventUser(i) == objection_data.data[i]["user_id"].v[1]

\* A cell of user u's row is u's own lecture value, or null.
OwnLectureValue(u, col, cell) ==
    \/ IsNa(cell)
    \/ u \in LectureUsers /\ cell = LectureRowOf(u)[col]

\* C11: the joins are keyed by the user: in the combined features and in the
\* returned table, every lecture value in the row of user u was computed from
\* u's own lecture views, never from another user's.
JoinsKeyedBySubject ==
    stage = "assembled" =>
        /\ \A i \in DOMAIN total_feature_data.data :
               \A col \in lecture_data.columns :
                   OwnLectureValue(total_feature_data.index[i], col,
                                   total_feature_data.data[i][col])
        /\ (~failed /\ Len(user_info.data) = Len(objection_data.data)) =>
               \A i \in DOMAIN user_info.data :
                   \A col \in lecture_data.columns :
                       OwnLectureValue(EventUser(i), col, user_info.data[i][col])

\* Users with an event of a tracked type in the inputs of the riiid stages: a
\* row of the history log, of answer_data or of the events to predict.
TrackedUsers ==
    {u \in Users :
        \/ \E i \in DOMAIN log_data.data : log_data.data[i]["user_id"] = Num(u)
        \/ \E i \in DOMAIN answer_data.data : answer_data.data[i]["user_id"] = Num(u)
        \/ \E i \in DOMAIN objection_data.data : objection_data.data[i]["user_id"] = Num(u)}

\* The rows of the returned table that belong to user u.
UserInfoRows(u) == {i \in DOMAIN user_info.data : EventUser(i) = u}

\* Users with a row in the telemetry error log.
ErrUsers == {u \in Users : ErrModelsOf(u) # {}}

\* C12: the final table has exactly one row for a user with at least one
\* event of a tracked type and no row for any other user, in the table
\* derive_user_info returns and in the telemetry table.
OneRowPerSubject ==
    /\ (stage = "assembled" /\ ~failed /\ Len(user_info.data) = Len(objection_data.data)) =>
           \A u \in Users :
               Cardinality(UserInfoRows(u)) = IF u \in TrackedUsers THEN 1 ELSE 0
    /\ stage = "pivoted" =>
           /\ IndexSet(user_error_model_data) = ErrUsers
           /\ Len(user_error_model_data.index) = Cardinality(ErrUsers)

\* The telemetry half of C12 alone.
OneRowPerErrUser ==
    stage = "pivoted" =>
        /\ IndexSet(user_error_model_data) = ErrUsers
        /\ Len(user_error_model_data.index) = Cardinality(ErrUsers)

\* The rows of the returned table are the events to predict, one for one.
OneRowPerEvent ==
    (stage = "assembled" /\ ~failed) =>
        /\ Len(user_info.data) = Len(objection_data.data)
        /\ \A u \in Users :
               Cardinality(UserInfoRows(u)) =
                   Cardinality({i \in DOMAIN objection_data.data : EventUser(i) = u})

----------------------------------------------------------------------------
(* Question stage: what the properties speak about.                        *)

\* The part of question c in the question catalog.
QuestionPart(c) ==
    QuestionMetaData.data[CHOOSE j \in DOMAIN QuestionMetaData.data :
                              QuestionMetaData.data[j]["question_id"] = c]["part"]

\* The question events of the log: those of user u, and those of user u in
\* part p (a cell).
QuestionEventsOf(u) ==
    {i \in DOMAIN log_data.data :
        /\ log_data.data[i]["content_type_id"] = Num(0)
        /\ log_data.data[i]["user_id"] = u}

QuestionEventsOfPart(u, p) ==
    {i \in QuestionEventsOf(u) : QuestionPart(log_data.data[i]["content_id"]) = p}

\* Of a set of events, those with an answer, and the one with the largest
\* row_id.
Answered(events) == {i \in events : ~IsNa(log_data.data[i]["answered_correctly"])}

LatestEvent(events) ==
    CHOOSE i \in events :
        \A j \in events : log_data.data[j]["row_id"].v[1] <= log_data.data[i]["row_id"].v[1]

QuestionInfoDone == stage = "answered" /\ ~failed

CorrectIn(events) ==
    Cardinality({i \in Answered(events) : log_data.data[i]["answered_correctly"] = Num(1)})

\* The rate a cell of a group carries: undefined when the group has no
\* answered event, the percentage of its answered events otherwise.
RateDefined(cell, events) ==
    IF Answered(events) = {} THEN IsNa(cell)
    ELSE cell = Rat(CorrectIn(events) * 100, Cardinality(Answered(events)))

\* C14: derive_question_info never raises on a group whose answered_count is
\* 0: the call returns a table in which every group that has events has a row,
\* correct_rate of a group without answered events is the undefined marker
\* (not 0), and correct_rate of every other group is its percentage.
RatesUndefinedNotRaised ==
    stage = "answered" =>
        /\ ~failed
        /\ \A i \in DOMAIN log_data.data :
               log_data.data[i]["content_type_id"] = Num(0) =>
                   \E k \in DOMAIN answer_data.data :
                       /\ answer_data.data[k]["user_id"] = log_data.data[i]["user_id"]
                       /\ answer_data.data[k]["part"] = QuestionPart(log_data.data[i]["content_id"])
        /\ \A k \in DOMAIN answer_data.data :
               LET row == answer_data.data[k]
               IN  /\ RateDefined(row["correct_rate"], QuestionEventsOfPart(row["user_id"], row["part"]))
                   /\ RateDefined(row["total_correct_rate"], QuestionEventsOf(row["user_id"]))


----------------------------------------------------------------------------
(* Assembly: the tag overlap flags and the final drop.                     *)

UserInfoDone == stage = "assembled" /\ ~failed

\* The history scopes: each part, and the whole history.
Scopes == {ToString(p) : p \in 1 .. NumParts} \cup {"total"}

\* The tags of the question of event k of the table of events to predict.
ItemTags(k) ==
    LET c == objection_data.data[k]["content_id"]
        q == CHOOSE j \in DOMAIN QuestionMetaData.data :
                 QuestionMetaData.data[j]["question_id"] = c
    IN  Range(Split(QuestionMetaData.data[q]["tags"].s))

\* The tags of the questions user u solved in scope X according to the
\* history table; none when the history has no row for it.
HistoryTags(u, X) ==
    LET rows == {j \in DOMAIN answer_data.data :
                    /\ answer_data.data[j]["user_id"] = u
                    /\ X # "total" => ToString(answer_data.data[j]["part"].v[1]) = X}
    IN  UNION {Range(answer_data.data[j][IF X = "total"
                                         THEN "total_solved_question_tag_list"
                                         ELSE "solved_question_tag_list"].l) : j \in rows}

\* C15: in the assembled table, which has one row per event to predict, in
\* the order of the events, is_solved_tag_on_X of a row is true exactly when
\* the tags of the row's question meet the tags the row's user solved in
\* scope X, and false when the user has no history in scope X.
SolvedTagIsOverlap ==
    UserInfoDone =>
        /\ Len(user_info.data) = Len(objection_data.data)
        /\ \A k \in DOMAIN user_info.data : \A X \in Scopes :
               /\ ("is_solved_tag_on_" \o X) \in user_info.columns
               /\ user_info.data[k]["is_solved_tag_on_" \o X] =
                      Bool(ItemTags(k) \cap HistoryTags(objection_data.data[k]["user_id"], X) # {})

\* One event whose question shares a tag with the user's history of part 2
\* and none with that of part 1, and an event of a user without history.
SolvedTagWitness ==
    /\ UserInfoDone
    /\ \E k \in DOMAIN user_info.data :
           /\ user_info.data[k]["is_solved_tag_on_2"] = Bool(TRUE)
           /\ user_info.data[k]["is_solved_tag_on_1"] = Bool(FALSE)
    /\ \E k \in DOMAIN user_info.data :
           /\ HistoryTags(objection_data.data[k]["user_id"], "total") = {}
           /\ user_info.data[k]["is_solved_tag_on_total"] = Bool(FALSE)


\* C16: whatever parts occur in the history, derive_user_info completes the
\* final drop and returns a table without any of the columns of the drop
\* list.
DropCompletes ==
    stage = "assembled" =>
        /\ ~failed
        /\ user_info.columns \cap DropColumns = {}


----------------------------------------------------------------------------
(* Telemetry normalisation: what the properties speak about.               *)

\* A timestamp of exactly 14 digits YYYYMMDDHHMMSS that reads as a date of
\* the calendar and a time of the day.
ValidTimestamp(text) ==
    LET N(i, j) == ToFloat(SubSeq(text, i, j)).v[1]
    IN  /\ Len(text) = 14
        /\ \A i \in 1 .. 14 : DigitOf(SubSeq(text, i, i)) >= 0
        /\ N(1, 4) >= 1
        /\ N(5, 6) \in 1 .. 12
        /\ N(7, 8) \in 1 .. DaysInMonth(N(1, 4), N(5, 6))
        /\ N(9, 10) \in 0 .. 23
        /\ N(11, 12) \in 0 .. 59
        /\ N(13, 14) \in 0 .. 59

\* The raw time values of a table that are not valid timestamps.
Offending(f) ==
    {f.data[i]["time"].s : i \in {j \in DOMAIN f.data :
                                     /\ f.data[j]["time"].t = "str"
                                     /\ ~ValidTimestamp(f.data[j]["time"].s)}}

\* C17: derive_err_related_data on a raw log that holds a time value which
\* is not a valid 14-digit timestamp raises an error whose message names an
\* offending raw value, returns no table and leaves the log as it was.
ParseErrorNamesValue ==
    [][(stage = "raw_err" /\ stage' = "err_done" /\ Offending(err_data) # {}) =>
           /\ \E text \in Offending(err_data) : Contains(error', text)
           /\ returned' = <<>>
           /\ err_data' = err_data]_vars

StagesLeaveInputUnchanged ==
    [][/\ stage' \in {"err_done", "err_rerun"} => err_data' = err_data
       /\ stage' = "refined" => quality_data' = quality_data
       /\ stage' = "err_rerun" => (error' = error /\ returned' = returned)]_vars


----------------------------------------------------------------------------
(* The shifted question columns.                                           *)

\* The rows of the latest input that hold a question, of user u, in a
\* container after container c.
LaterQuestions(u, c) ==
    {j \in DOMAIN input_frame :
        /\ input_frame[j].user_id = u
        /\ input_frame[j].content_type_id = 0
        /\ input_frame[j].task_container_id > c}

\* The row of the user's next question container after container c.
FollowingQuestion(u, c) ==
    CHOOSE j \in LaterQuestions(u, c) :
        \A h \in LaterQuestions(u, c) :
            input_frame[j].task_container_id <= input_frame[h].task_container_id

\* Row r carries the shifted columns with the values of the user's next
\* question container, or no value when r is in the user's last one.
CarriesShifted(r) ==
    /\ {"question_elapsed_time", "question_had_explanation"} \subseteq DOMAIN r
    /\ IF LaterQuestions(r.user_id, r.task_container_id) = {}
       THEN r.question_elapsed_time = NoValue /\ r.question_had_explanation = NoValue
       ELSE LET n == input_frame[FollowingQuestion(r.user_id, r.task_container_id)]
            IN  /\ r.question_elapsed_time = n.prior_question_elapsed_time
                /\ r.question_had_explanation = n.prior_question_had_explanation

\* C20: the question rows of the train and test tables refine_log_data
\* returns carry question_elapsed_time and question_had_explanation, with
\* the prior_ values of the same user's next question container, and no
\* value in the user's last question container.
ShiftedColumnsCarried ==
    (pc = "refined" /\ ~raised) =>
        /\ \A i \in DOMAIN train_log_data :
               train_log_data[i].content_type_id = 0 => CarriesShifted(train_log_data[i])
        /\ \A i \in DOMAIN test_log_data :
               test_log_data[i].content_type_id = 0 => CarriesShifted(test_log_data[i])


----------------------------------------------------------------------------
(* C21: the kaggle-riiid entry point completes and returns the table of    *)
(* derive_user_info                                                         *)

\* C21: whenever preprocessing has been called on a well-formed log and
\* objective table, it has not raised, and what it returned is the result of
\* derive_user_info on the lecture table and the question-history table that
\* derive_lecture_info and derive_question_info compute from that same log.
PreprocessingCompletes ==
    stage = "preprocessed" =>
        /\ ~failed
        /\ user_info =
               DeriveUserInfo(DeriveLectureInfo(log_data, LecturesData).frame,
                              DeriveQuestionInfo(log_data, QuestionMetaData).frame,
                              objection_data, QuestionMetaData,
                              QuestionOverallData).objection_data


----------------------------------------------------------------------------
(* C22: the quality flag and the filled cells of the telemetry table       *)

\* The subjects with at least one record in a log.
Subjects(f) == {f.data[i]["user_id"].v[1] : i \in DOMAIN f.data}

\* C22: whenever the telemetry preprocessing has been called on a
\* well-formed error log and quality log, it has returned a table in which
\* has_quality_data is 1 for the subjects with a quality record and 0 for
\* the others, and in which no cell is null.
QualityFlagAndNoNull ==
    stage = "total" =>
        /\ error = ""
        /\ Len(returned) = 1
        /\ \A i \in DOMAIN returned[1].data :
               /\ returned[1].data[i]["has_quality_data"] =
                      Num(IF returned[1].index[i] \in Subjects(quality_data) THEN 1 ELSE 0)
               /\ \A c \in returned[1].columns : ~IsNa(returned[1].data[i][c])

====
